---- MODULE Spec2Model ----
(***************************************************************************)
(* A model of gokyle/gofortuna: the Fortuna accumulator (fortuna/doc.go),  *)
(* its block generator (the chunked Generator) and the entropy pools.      *)
(*                                                                         *)
(* Cryptographic primitives are modelled symbolically: SHA-256 of a byte   *)
(* string and the AES-256 encryption of a counter block under a key are    *)
(* terms that are equal only when their arguments are equal.  Time is in   *)
(* milliseconds.                                                           *)
(***************************************************************************)
EXTENDS Integers, Sequences, FiniteSets, TLC

(***************************************************************************)
(* Program constants.                                                      *)
(***************************************************************************)
MinPoolSize == 48
ReseedDelay == 100
MaxEventSize == 32
PoolSize == 32
SeedFileLength == 64
MaxRead == 1048576
maxBlocks == 65536
newKeyBlocks == 2
BlockSize == 16
CounterLen == 16

(***************************************************************************)
(* Bounds of the model.                                                    *)
(***************************************************************************)
MaxAdds == 2
MaxReads == 2
MaxSeeds == 1
StartTime == 1000
MaxTime == 1200
TickStep == 100
MaxFileOps == 2

PoolIndex == 0 .. (PoolSize - 1)

Min(a, b) == IF a < b THEN a ELSE b

(***************************************************************************)
(* Go slices of bytes: nil or a (possibly empty) sequence of bytes.        *)
(***************************************************************************)
NilSlice == [isNil |-> TRUE, data |-> << >>]
Slice(bs) == [isNil |-> FALSE, data |-> bs]
len(p) == Len(p.data)

(***************************************************************************)
(* A destination buffer of Read: nil, or a buffer of a given length.  What *)
(* a call writes into it is kept with the call's result.                   *)
(***************************************************************************)
NilBuf == [isNil |-> TRUE, len |-> 0]
Buf(n) == [isNil |-> FALSE, len |-> n]

(***************************************************************************)
(* uint32 as two 16-bit limbs <<hi, lo>>.                                  *)
(***************************************************************************)
Limb == 65536
U32Zero == <<0, 0>>
U32IsZero(c) == c[1] = 0 /\ c[2] = 0
\* c++ on a uint32: wraps to 0 after 2^32 - 1.
U32Inc(c) ==
    IF c[2] = Limb - 1 THEN <<(c[1] + 1) % Limb, 0>> ELSE <<c[1], c[2] + 1>>

RECURSIVE Pow2(_)
Pow2(n) == IF n = 0 THEN 1 ELSE 2 * Pow2(n - 1)

\* 1 << uint32(i) as a uint32, for 0 <= i: bits shifted out are lost.
U32Shl1(i) ==
    IF i < 16 THEN <<0, Pow2(i)>>
    ELSE IF i < 32 THEN <<Pow2(i - 16), 0>>
    ELSE U32Zero

\* bitwise OR of two 16-bit limbs
RECURSIVE LimbOr(_, _, _)
LimbOr(a, b, bits) ==
    IF bits = 0 \/ (a = 0 /\ b = 0) THEN 0
    ELSE (IF (a % 2 = 1) \/ (b % 2 = 1) THEN 1 ELSE 0)
         + 2 * LimbOr(a \div 2, b \div 2, bits - 1)

U32Or(a, b) == <<LimbOr(a[1], b[1], 16), LimbOr(a[2], b[2], 16)>>

\* c mod 2^i = 0 for a uint32 c and 0 <= i <= 31 (used by the properties)
U32DivisibleByPow2(c, i) ==
    IF i <= 16 THEN c[2] % Pow2(i) = 0
    ELSE c[2] = 0 /\ c[1] % Pow2(i - 16) = 0

(***************************************************************************)
(* The generator counter: rngCounter [16]byte, little-endian.              *)
(***************************************************************************)
ZeroCounter == [j \in 1 .. CounterLen |-> 0]

RECURSIVE incCounterFrom(_, _)
incCounterFrom(c, j) ==
    IF j > CounterLen THEN c
    ELSE LET b == (c[j] + 1) % 256
         IN  IF b # 0 THEN [c EXCEPT ![j] = b]
             ELSE incCounterFrom([c EXCEPT ![j] = 0], j + 1)

\* (mutant) an increment of byte 0 alone
incCounterNoCarry(c) == [c EXCEPT ![1] = (c[1] + 1) % 256]

incCounter(c) == incCounterFrom(c, 1)

\* k calls of incCounter, as one addition with carry from byte 0 upward
RECURSIVE addCounterFrom(_, _, _)
addCounterFrom(c, j, carry) ==
    IF j > CounterLen \/ carry = 0 THEN c
    ELSE LET v == c[j] + carry
         IN  addCounterFrom([c EXCEPT ![j] = v % 256], j + 1, v \div 256)

incCounterTimes(c, k) == addCounterFrom(c, 1, k)

\* the counters as numbers, compared from the most significant byte down
RECURSIVE CounterLessFrom(_, _, _)
CounterLessFrom(a, b, j) ==
    IF j = 0 THEN FALSE
    ELSE IF a[j] # b[j] THEN a[j] < b[j]
    ELSE CounterLessFrom(a, b, j - 1)

CounterLess(a, b) == CounterLessFrom(a, b, CounterLen)

(***************************************************************************)
(* Symbolic byte strings and keys.                                         *)
(*   a segment is a run of bytes: literal bytes, the SHA-256 digest of     *)
(*   literal bytes, or the first n bytes of `blocks` consecutive cipher    *)
(*   blocks E(k, c), E(k, c+1), ...                                        *)
(***************************************************************************)
ZeroKey == [kind |-> "zero"]
\* SHA-256(K || s)
HashKey(K, s) == [kind |-> "sha256", prev |-> K, s |-> s]
\* E(K, c1) || E(K, c2): two cipher blocks used as a key
BlocksKey(K, c1, c2) == [kind |-> "aes", prev |-> K, c1 |-> c1, c2 |-> c2]

RawSeg(bs) == [t |-> "raw", v |-> bs]
\* sha256.New(); h.Write(bs); h.Sum(nil)
Sha256Seg(bs) == [t |-> "sha256", v |-> bs]
EncSeg(K, c, blocks, n) == [t |-> "enc", k |-> K, c |-> c, blocks |-> blocks, n |-> n]

(***************************************************************************)
(* The generator (part_001): g = [key, ctr].                               *)
(***************************************************************************)
NewGenerator == [key |-> ZeroKey, ctr |-> ZeroCounter]

\* Generator.Write(bs): key <- SHA-256(key || bs), counter + 1
GenWrite(g, s) == [key |-> HashKey(g.key, s), ctr |-> incCounter(g.ctr)]

\* h.Write(bs) on a byte slice: what the hash input gains
hashWrite(bs) == IF len(bs) = 0 THEN << >> ELSE <<RawSeg(bs.data)>>

\* string(bs): a string is its bytes, copied one by one; a nil slice gives ""
goString(bs) == [chars |-> [j \in 1 .. len(bs) |-> bs.data[j]]]

\* (mutant) a conversion by runes: a byte that is no ASCII character is lost
bytesOfRunes(s) ==
    Slice([j \in 1 .. Len(s.chars) |-> IF s.chars[j] >= 128 THEN 63 ELSE s.chars[j]])

\* []byte(s): a slice, never nil, of the bytes of s
bytesOf(s) == Slice([j \in 1 .. Len(s.chars) |-> s.chars[j]])

\* Generator.Reseed(s), s a string
GenReseed(g, s) ==
    [key |-> HashKey(g.key, hashWrite(bytesOf(s))), ctr |-> incCounter(g.ctr)]

\* generateBlocks(k): k blocks E(key, ctr), E(key, ctr+1), ...; aes.NewCipher
\* cannot fail on a 32-byte key.
generateBlocks(g, k) ==
    [r |-> EncSeg(g.key, g.ctr, k, k * BlockSize),
     g |-> [g EXCEPT !.ctr = incCounterTimes(g.ctr, k)]]

\* the key installed by copy(g.key[:], nk)
installKey(g, nk) == [g EXCEPT !.key = BlocksKey(nk.k, nk.c, incCounter(nk.c))]

\* copy(p, r): the first Min(len(p), len(r)) bytes of r
copyBlocks(plen, r) == [r EXCEPT !.n = Min(plen, r.n)]

\* (mutant) blockGenerate that leaves the key in place
blockGenerateNoRekey(g, plen, k) ==
    LET a == generateBlocks(g, k)
        b == generateBlocks(a.g, newKeyBlocks)
    IN  [out |-> copyBlocks(plen, a.r), g |-> b.g]

\* blockGenerate(p, k) on a destination of plen bytes
blockGenerate(g, plen, k) ==
    LET a == generateBlocks(g, k)
        b == generateBlocks(a.g, newKeyBlocks)
    IN  [out |-> copyBlocks(plen, a.r), g |-> installKey(b.g, b.r)]

\* (mutant) the block count rounded down
blocksForTruncated(pl) == pl \div BlockSize

\* the number of blocks for pl bytes
blocksFor(pl) ==
    (pl \div BlockSize) + (IF (pl % BlockSize) # 0 THEN 1 ELSE 0)

\* (mutant) at least one chunk whatever the number of blocks
chunksForAtLeastOne(k) ==
    IF k = 0 THEN 1
    ELSE (k \div maxBlocks) + (IF (k % maxBlocks) # 0 THEN 1 ELSE 0)

\* the number of chunks for k blocks
chunksFor(k) ==
    (k \div maxBlocks) + (IF (k % maxBlocks) # 0 THEN 1 ELSE 0)

\* the loop of Generator.Read: chunk i of gr, pp the rest of the destination
RECURSIVE readLoop(_, _, _, _, _, _)
readLoop(g, pplen, i, gr, k, out) ==
    IF i >= gr THEN [g |-> g, out |-> out]
    ELSE LET blks == IF i = (gr - 1) /\ ((k % maxBlocks) # 0)
                     THEN k % maxBlocks ELSE maxBlocks
             bg == blockGenerate(g, pplen, blks)
             rest == IF i < (gr - 1) THEN pplen - blks * BlockSize ELSE pplen
         IN  readLoop(bg.g, rest, i + 1, gr, k, Append(out, bg.out))

\* Generator.Read(p): [n, err, g, out]
GenRead(g, p) ==
    IF p.isNil THEN [n |-> 0, err |-> "nil", g |-> g, out |-> << >>]
    ELSE LET k == blocksFor(p.len)
             gr == chunksFor(k)
             res == readLoop(g, p.len, 0, gr, k, << >>)
         IN  [n |-> p.len, err |-> "nil", g |-> res.g, out |-> res.out]

(***************************************************************************)
(* State of one Fortuna instance.                                          *)
(***************************************************************************)
VARIABLES
    initialised,   \* rng.initialised
    pools,         \* rng.pools: [hash, written] per pool
    counter,       \* rng.counter (uint32)
    gen,           \* rng.g: [key, ctr]
    lastReseed,    \* rng.lastReseed.Time (0: the zero time)
    now,           \* the clock
    nadds,         \* number of events accepted
    nreads,        \* number of Read calls that reseeded or produced output
    nseeds,        \* number of seeds accepted by ReadSeed
    last,          \* the last completed call and its result
    pc,            \* per thread: where it is in its call
    loc,           \* per thread: the call's arguments and local variables
    locks,         \* per pool: the thread holding pools[i].Mutex, 0 when free;
                   \* at index PoolSize: the holder of lastReseed.Mutex
    encs,          \* history: the cipher blocks computed, by Read call
    reseedLog,     \* history: the reseeds, by Read call and time
    evlog,         \* history, per pool: the events in the order they took the lock
    drains,        \* history, per pool: the buffers digested
    todo,          \* per thread: the calls it still has to make, in order
    file,          \* the seed file: whether it exists, its length, its bytes
    nfops,         \* number of seed and seed-file calls made
    twin,          \* two instances given the same calls, and their results
    sw,            \* a SourceWriter: sw.i, the Write call in progress, its calls
    cs,            \* a SourceChannel: In, Out, cs.i, its worker, the caller of Stop
    au,            \* the AutoUpdate task, its two channels and who uses them
    gt             \* a Generator used on its own: before and after its last call

seqVars ==
    <<initialised, pools, counter, gen, lastReseed, now, nadds, nreads, nseeds, last>>
concVars == <<pc, loc, locks, encs, reseedLog, evlog, drains, todo>>
fileVars == <<file, nfops>>
moreVars == <<twin, sw, cs, au, gt>>
exceptTwin == <<sw, cs, au, gt>>
exceptSw == <<twin, cs, au, gt>>
exceptCs == <<twin, sw, au, gt>>
exceptAu == <<twin, sw, cs, gt>>
exceptGt == <<twin, sw, cs, au>>
extVars == <<fileVars, moreVars>>
vars == <<seqVars, concVars, extVars>>

NumThreads == 2
Threads == 1 .. NumThreads

LocInit ==
    [op |-> "none", call |-> 0, p |-> NilBuf, s |-> 0, i |-> 0, e |-> << >>,
     poolReseed |-> FALSE, reseedAt |-> 0, c |-> U32Zero, idx |-> 0,
     sbuf |-> << >>, key |-> ZeroKey, ctr |-> ZeroCounter, ckey |-> ZeroKey,
     k |-> 0, phase |-> "none", r |-> << >>, data |-> << >>, n |-> 0,
     err |-> "nil", trail |-> << >>]

EmptyPool == [hash |-> << >>, written |-> 0]

NoCall ==
    [op |-> "none", s |-> 0, i |-> 0, e |-> NilSlice, p |-> NilBuf,
     n |-> 0, err |-> "nil", reseeded |-> FALSE, drained |-> {},
     out |-> << >>]

\* a seed file: missing, or holding len bytes, the segment seg
NoFile == [exists |-> FALSE, len |-> 0, seg |-> RawSeg(<< >>)]
FileOf(n, seg) == [exists |-> TRUE, len |-> n, seg |-> seg]

\* the state after New(), with the calls sc that the threads will make
CoreInit(sc) ==
    /\ initialised = TRUE
    /\ pools = [i \in PoolIndex |-> EmptyPool]
    /\ counter = U32Zero
    /\ gen = NewGenerator
    /\ lastReseed = 0
    /\ now = StartTime
    /\ nadds = 0
    /\ nreads = 0
    /\ nseeds = 0
    /\ last = NoCall
    /\ pc = [t \in Threads |-> "idle"]
    /\ loc = [t \in Threads |-> LocInit]
    /\ locks = [i \in 0 .. PoolSize |-> 0]
    /\ encs = {}
    /\ reseedLog = << >>
    /\ evlog = [i \in PoolIndex |-> << >>]
    /\ drains = [i \in PoolIndex |-> << >>]
    /\ todo = sc

\* New()
NewInst ==
    [initialised |-> TRUE, pools |-> [i \in PoolIndex |-> EmptyPool],
     counter |-> U32Zero, gen |-> NewGenerator, lastReseed |-> 0]

\* the result of a call on an instance that has made none
NoResult == [n |-> 0, err |-> "nil", out |-> << >>, reseeded |-> FALSE]

\* two instances fresh from New()
TwinInit ==
    twin = [a |-> NewInst, b |-> NewInst, ra |-> NoResult, rb |-> NoResult,
            seeded |-> FALSE, restore |-> "none", n |-> 0]

\* NewSourceWriter(rng, source): sw.i is 0 and no Write has been called
WriterInit ==
    sw = [i |-> 0, pc |-> "idle", p |-> NilSlice, off |-> 0, k |-> 0, j |-> 0,
          i0 |-> 0, calls |-> << >>, n |-> 0, err |-> "nil", writes |-> 0]

\* NewSourceChannel(rng, source): cs.i is 0, not started
ChannelInit ==
    cs = [started |-> FALSE, inq |-> << >>, inClosed |-> FALSE, inNil |-> TRUE,
          outq |-> << >>, outClosed |-> FALSE, outNil |-> TRUE, i |-> 0,
          wpc |-> "none", e |-> NilSlice, err |-> "nil", applied |-> << >>,
          sent |-> << >>, spc |-> "idle", stops |-> 0, closes |-> 0]

\* AutoUpdate not called
AutoInit ==
    au = [pc |-> "off", shClosed |-> FALSE, shClosedByTask |-> FALSE,
          values |-> 0, timers |-> 0, err |-> "nil", got |-> << >>,
          errCloses |-> 0, finals |-> 0, log |-> << >>,
          armed |-> 0, since |-> 0, ticks |-> 0]

\* NewGenerator() (New() in the capped variant), no call made
GeneratorInit ==
    gt = [g |-> NewGenerator, prev |-> NewGenerator, op |-> "none", k |-> 0,
          s |-> NilSlice, p |-> NilBuf, n |-> 0, err |-> "nil", out |-> << >>,
          ops |-> 0]

MoreInit == TwinInit /\ WriterInit /\ ChannelInit /\ AutoInit /\ GeneratorInit

\* no seed file
ExtInit ==
    /\ file = NoFile
    /\ nfops = 0
    /\ MoreInit

InitWith(sc) == CoreInit(sc) /\ ExtInit

Init == InitWith([t \in Threads |-> << >>])

(***************************************************************************)
(* Fortuna.mustReseed and Fortuna.reseed                                   *)
(***************************************************************************)
\* time.Now().After(u): strictly later
\* (mutant) a comparison that also holds at the instant itself
AfterOrAt(t, u) == t >= u

After(t, u) == t > u

mustReseed(ps, lr, t) ==
    LET poolReseed == ps[0].written >= MinPoolSize
        reseed == lr + ReseedDelay
    IN  poolReseed /\ After(t, reseed)

\* the test that selects pool i at a reseed, on the incremented counter c
poolSelected(i, c) == ~U32IsZero(U32Or(U32Shl1(i), c))

\* the critical section of reseed on one pool: the digest appended to s and
\* the pool left behind
drainPool(pl) ==
    [digest |-> Sha256Seg(pl.hash), pool |-> [pl EXCEPT !.hash = << >>]]

RECURSIVE reseedLoop(_, _, _, _, _)
reseedLoop(ps, c, i, s, drained) ==
    IF i >= PoolSize THEN [pools |-> ps, s |-> s, drained |-> drained]
    ELSE IF poolSelected(i, c)
         THEN LET d == drainPool(ps[i])
              IN  reseedLoop([ps EXCEPT ![i] = d.pool], c, i + 1,
                             Append(s, d.digest), drained \cup {i})
         ELSE reseedLoop(ps, c, i + 1, s, drained)

\* Fortuna.reseed at time t: [counter, pools, gen, lastReseed, drained]
reseed(ps, c, g, t) ==
    LET c1 == U32Inc(c)
        lp == reseedLoop(ps, c1, 0, << >>, {})
    IN  [counter |-> c1, pools |-> lp.pools, gen |-> GenWrite(g, lp.s),
         lastReseed |-> t, drained |-> lp.drained]

(***************************************************************************)
(* Fortuna.Read(p)                                                         *)
(***************************************************************************)
\* (mutant) the nil destination tested before the reseed counter
readAfterCheckNilFirst(c, g, p) ==
    IF p.isNil THEN [n |-> 0, err |-> "nil", g |-> g, out |-> << >>]
    ELSE IF U32IsZero(c) THEN [n |-> 0, err |-> "ErrNotSeeded", g |-> g, out |-> << >>]
    ELSE GenRead(g, p)

\* what Read returns once the reseed check is done, on counter c and
\* generator g
readAfterCheck(c, g, p) ==
    IF U32IsZero(c) THEN [n |-> 0, err |-> "ErrNotSeeded", g |-> g, out |-> << >>]
    ELSE IF p.isNil THEN [n |-> 0, err |-> "nil", g |-> g, out |-> << >>]
    ELSE GenRead(g, p)

noReseed(ps, c, g, lr) ==
    [counter |-> c, pools |-> ps, gen |-> g, lastReseed |-> lr, drained |-> {}]

Read(p) ==
    LET must == mustReseed(pools, lastReseed, now)
    IN  \E rs \in {IF must THEN reseed(pools, counter, gen, now)
                   ELSE noReseed(pools, counter, gen, lastReseed)} :
        \E res \in {readAfterCheck(rs.counter, rs.gen, p)} :
            /\ counter' = rs.counter
            /\ pools' = rs.pools
            /\ lastReseed' = rs.lastReseed
            /\ gen' = res.g
            /\ last' = [NoCall EXCEPT !.op = "Read", !.p = p, !.n = res.n,
                                      !.err = res.err, !.reseeded = must,
                                      !.drained = rs.drained, !.out = res.out]
            /\ IF must \/ res.g # gen
               THEN nreads < MaxReads /\ nreads' = nreads + 1
               ELSE nreads' = nreads
            /\ UNCHANGED <<initialised, now, nadds, nseeds, concVars, extVars>>

(***************************************************************************)
(* Fortuna.AddRandomEvent(s, i, e)                                         *)
(***************************************************************************)
\* (mutant) the length byte left out of the frame
appendEventNoLength(h, s, e) == (h \o <<s>>) \o e.data

\* the three appends to the pool's buffer
appendEvent(h, s, e) == (h \o <<s, len(e) % 256>>) \o e.data

\* the pool after the critical section of AddRandomEvent
addToPool(pl, s, e) ==
    [hash |-> appendEvent(pl.hash, s, e), written |-> pl.written + (len(e) + 2)]

\* the checks of AddRandomEvent: the error returned, "nil" when the event is
\* accepted, "panic" when rng.pools[i] is indexed out of range
checkEvent(init, i, e) ==
    IF ~init THEN "ErrNotInitialised"
    ELSE IF e.isNil \/ len(e) = 0 \/ len(e) > MaxEventSize THEN "ErrInvalidEvent"
    ELSE IF i < 0 \/ i > PoolSize THEN "ErrInvalidEvent"
    ELSE IF i \notin PoolIndex THEN "panic"
    ELSE "nil"

AddRandomEvent(s, i, e) ==
    \E err \in {checkEvent(initialised, i, e)} :
        /\ IF err = "nil"
           THEN /\ nadds < MaxAdds
                /\ pools' = [pools EXCEPT ![i] = addToPool(pools[i], s, e)]
                /\ nadds' = nadds + 1
           ELSE UNCHANGED <<pools, nadds>>
        /\ last' = [NoCall EXCEPT !.op = "AddRandomEvent", !.s = s, !.i = i,
                                  !.e = e, !.err = err]
        /\ UNCHANGED <<initialised, counter, gen, lastReseed, now, nreads, nseeds,
                       concVars, extVars>>

(***************************************************************************)
(* Fortuna.ReadSeed(p)                                                     *)
(***************************************************************************)
\* the check of ReadSeed
checkSeed(p) == IF len(p) # SeedFileLength THEN "ErrInvalidSeed" ELSE "nil"

\* (mutant) the seed written to the generator, the reseed counter left alone
readSeedNoCount(g, c, p) ==
    IF checkSeed(p) # "nil" THEN [err |-> checkSeed(p), gen |-> g, counter |-> c]
    ELSE [err |-> "nil", gen |-> GenWrite(g, <<RawSeg(p.data)>>), counter |-> c]

\* ReadSeed(p) on generator g and reseed counter c: [err, gen, counter]
readSeed(g, c, p) ==
    IF checkSeed(p) # "nil" THEN [err |-> checkSeed(p), gen |-> g, counter |-> c]
    ELSE [err |-> "nil", gen |-> GenWrite(g, <<RawSeg(p.data)>>),
          counter |-> U32Inc(c)]

ReadSeed(p) ==
    \E r \in {readSeed(gen, counter, p)} :
        /\ IF r.err = "nil"
           THEN nseeds < MaxSeeds /\ nseeds' = nseeds + 1
           ELSE nseeds' = nseeds
        /\ gen' = r.gen
        /\ counter' = r.counter
        /\ last' = [NoCall EXCEPT !.op = "ReadSeed", !.e = p, !.err = r.err]
        /\ UNCHANGED <<initialised, pools, lastReseed, now, nadds, nreads, concVars, extVars>>

(***************************************************************************)
(* The clock                                                               *)
(***************************************************************************)
Tick ==
    /\ now + TickStep <= MaxTime
    /\ now' = now + TickStep
    /\ UNCHANGED <<initialised, pools, counter, gen, lastReseed,
                   nadds, nreads, nseeds, last, concVars, extVars>>

(***************************************************************************)
(* The calls the environment makes                                         *)
(***************************************************************************)
Bytes(n, b) == [j \in 1 .. n |-> b]

Sources == {7}
GoodPayloads == {Slice(Bytes(12, 90)), Slice(Bytes(MaxEventSize, 60))}
BadPayloads == {NilSlice, Slice(<< >>), Slice(Bytes(MaxEventSize + 1, 60))}
GoodPools == {0, PoolSize - 1}
BadPools == {-1, PoolSize, PoolSize + 1}
\* the (pool, payload) pairs tried: every valid pair, and the pairs with one
\* invalid component
Events ==
    (GoodPools \X GoodPayloads)
        \cup (BadPools \X {Slice(Bytes(12, 90))})
        \cup ({0} \X BadPayloads)
Dests == {NilBuf, Buf(0), Buf(BlockSize + 1), Buf(MaxRead)}
Seeds ==
    {NilSlice, Slice(Bytes(SeedFileLength, 17)), Slice(Bytes(SeedFileLength - 1, 17))}

\* entropy events, reads and the clock
Next ==
    \/ \E s \in Sources, ev \in Events : AddRandomEvent(s, ev[1], ev[2])
    \/ \E p \in Dests : Read(p)
    \/ Tick

Spec == Init /\ [][Next]_vars

\* restoring from a seed, reads, and valid entropy events
SeedNext ==
    \/ \E p \in Seeds : ReadSeed(p)
    \/ \E p \in Dests : Read(p)
    \/ \E s \in Sources, ev \in GoodPools \X GoodPayloads :
            AddRandomEvent(s, ev[1], ev[2])

SeedSpec == Init /\ [][SeedNext]_vars

\* An instance late in its life: New() followed by 2^32 - 2 or 2^32 - 1
\* calls of ReadSeed, each of which has incremented rng.counter and written
\* the generator once.  The key is the digest the last of them left, the
\* generator counter the number of writes.
U32Max == <<Limb - 1, Limb - 1>>
LateCounters == {<<Limb - 1, Limb - 2>>, U32Max}

\* the value of a uint32 as the 16 bytes of a generator counter
counterOfU32(c) ==
    [j \in 1 .. CounterLen |->
        IF j = 1 THEN c[2] % 256
        ELSE IF j = 2 THEN c[2] \div 256
        ELSE IF j = 3 THEN c[1] % 256
        ELSE IF j = 4 THEN c[1] \div 256
        ELSE 0]

LateInit ==
    /\ initialised = TRUE
    /\ pools = [i \in PoolIndex |-> EmptyPool]
    /\ counter \in LateCounters
    /\ gen = [key |-> HashKey(ZeroKey, <<RawSeg(Bytes(SeedFileLength, 17))>>),
              ctr |-> counterOfU32(counter)]
    /\ lastReseed = 0
    /\ now = StartTime
    /\ nadds = 0
    /\ nreads = 0
    /\ nseeds = 0
    /\ last = NoCall
    /\ pc = [t \in Threads |-> "idle"]
    /\ loc = [t \in Threads |-> LocInit]
    /\ locks = [i \in 0 .. PoolSize |-> 0]
    /\ encs = {}
    /\ reseedLog = << >>
    /\ evlog = [i \in PoolIndex |-> << >>]
    /\ drains = [i \in PoolIndex |-> << >>]
    /\ todo = [t \in Threads |-> << >>]
    /\ ExtInit

LateSpec == LateInit /\ [][SeedNext]_vars

(***************************************************************************)
(* Seeds and the seed file.  An instance is the record of the fields of a  *)
(* Fortuna value; the calls below are functions of it, of the file and of  *)
(* the clock, and the actions apply them to the instance of the model.     *)
(***************************************************************************)
Inst ==
    [initialised |-> initialised, pools |-> pools, counter |-> counter,
     gen |-> gen, lastReseed |-> lastReseed]


SetInst(st) ==
    /\ initialised' = st.initialised
    /\ pools' = st.pools
    /\ counter' = st.counter
    /\ gen' = st.gen
    /\ lastReseed' = st.lastReseed

\* Read once the reseed check has left rs behind and the generator has
\* answered res
readDone(st, rs, res, must) ==
    [st |-> [st EXCEPT !.pools = rs.pools, !.counter = rs.counter,
                       !.gen = res.g, !.lastReseed = rs.lastReseed],
     n |-> res.n, err |-> res.err, out |-> res.out, reseeded |-> must]

readChecked(st, rs, must, p) ==
    readDone(st, rs, readAfterCheck(rs.counter, rs.gen, p), must)

\* rng.Read(p) at time t: the instance left behind and the result
instRead(st, p, t) ==
    IF mustReseed(st.pools, st.lastReseed, t)
    THEN readChecked(st, reseed(st.pools, st.counter, st.gen, t), TRUE, p)
    ELSE readChecked(st, noReseed(st.pools, st.counter, st.gen, st.lastReseed),
                     FALSE, p)

\* (mutant) Seed that draws one block less than a seed holds
seedLengthShort == SeedFileLength - BlockSize

\* the length of the buffer Seed fills
seedLength == SeedFileLength

\* Seed once io.ReadFull has returned r: the seed, or the error of the Read
seedDone(r) ==
    IF r.err # "nil"
    THEN [st |-> r.st, err |-> r.err, seed |-> NoFile, reseeded |-> r.reseeded]
    ELSE [st |-> r.st, err |-> "nil", seed |-> FileOf(r.n, r.out[1]),
          reseeded |-> r.reseeded]

\* rng.Seed(): io.ReadFull(rng, p) on a buffer of SeedFileLength bytes is one
\* Read, which returns all of it or an error
instSeed(st, t) ==
    IF ~st.initialised
    THEN [st |-> st, err |-> "ErrNotInitialised", seed |-> NoFile, reseeded |-> FALSE]
    ELSE seedDone(instRead(st, Buf(seedLength), t))

\* the outcomes of ioutil.WriteFile(filename, seed, 0600): written; refused
\* when the file is opened; failed after the file was truncated
IoOutcomes == {"ok", "denied", "short"}

WriteFile(f, seed, io) ==
    IF io = "ok" THEN [err |-> "nil", file |-> seed]
    ELSE IF io = "denied" THEN [err |-> "EACCES", file |-> f]
    ELSE [err |-> "EIO", file |-> FileOf(0, RawSeg(<< >>))]

\* WriteSeed once Seed has returned s
writeSeedDone(s, f, io) ==
    IF s.err # "nil"
    THEN [st |-> s.st, err |-> s.err, file |-> f, seed |-> NoFile]
    ELSE [st |-> s.st, err |-> WriteFile(f, s.seed, io).err,
          file |-> WriteFile(f, s.seed, io).file, seed |-> s.seed]

\* rng.WriteSeed(filename)
instWriteSeed(st, f, t, io) ==
    IF ~st.initialised
    THEN [st |-> st, err |-> "ErrNotInitialised", file |-> f, seed |-> NoFile]
    ELSE writeSeedDone(instSeed(st, t), f, io)

\* the checks on the file read by UpdateSeed and FromSeed
checkSeedFile(f) ==
    IF ~f.exists THEN "ENOENT"
    ELSE IF f.len # SeedFileLength THEN "ErrInvalidSeed"
    ELSE "nil"

\* (mutant) UpdateSeed that folds the old seed in and leaves the file alone
instUpdateSeedNoWrite(st, f, t, io) ==
    IF ~st.initialised
    THEN [st |-> st, err |-> "ErrNotInitialised", file |-> f, seed |-> NoFile]
    ELSE IF checkSeedFile(f) # "nil"
    THEN [st |-> st, err |-> checkSeedFile(f), file |-> f, seed |-> NoFile]
    ELSE [st |-> [st EXCEPT !.gen = GenWrite(@, <<f.seg>>)], err |-> "nil",
          file |-> f, seed |-> f]

\* rng.UpdateSeed(filename)
instUpdateSeed(st, f, t, io) ==
    IF ~st.initialised
    THEN [st |-> st, err |-> "ErrNotInitialised", file |-> f, seed |-> NoFile]
    ELSE IF checkSeedFile(f) # "nil"
    THEN [st |-> st, err |-> checkSeedFile(f), file |-> f, seed |-> NoFile]
    ELSE instWriteSeed([st EXCEPT !.gen = GenWrite(@, <<f.seg>>)], f, t, io)

\* (mutant) FromSeed that leaves the reseed counter of the new instance at 0
fromSeedNoCount(f) ==
    [NewInst EXCEPT !.gen = GenWrite(@, <<f.seg>>)]

\* FromSeed(filename), the file accepted: the instance returned
fromSeed(f) ==
    [NewInst EXCEPT !.gen = GenWrite(@, <<f.seg>>), !.counter = U32Inc(@)]

Seed ==
    /\ nfops < MaxFileOps
    /\ nfops' = nfops + 1
    /\ \E r \in {instSeed(Inst, now)} :
          /\ SetInst(r.st)
          /\ last' = [NoCall EXCEPT !.op = "Seed", !.err = r.err, !.n = r.seed.len,
                                    !.out = IF r.err = "nil" THEN <<r.seed.seg>>
                                            ELSE << >>,
                                    !.reseeded = r.reseeded]
    /\ UNCHANGED <<now, nadds, nreads, nseeds, concVars, file, moreVars>>

WriteSeed(io) ==
    /\ nfops < MaxFileOps
    /\ nfops' = nfops + 1
    /\ \E r \in {instWriteSeed(Inst, file, now, io)} :
          /\ SetInst(r.st)
          /\ file' = r.file
          /\ last' = [NoCall EXCEPT !.op = "WriteSeed", !.err = r.err,
                                    !.out = IF r.seed.exists THEN <<r.seed.seg>>
                                            ELSE << >>]
    /\ UNCHANGED <<now, nadds, nreads, nseeds, concVars, moreVars>>

UpdateSeed(io) ==
    /\ nfops < MaxFileOps
    /\ nfops' = nfops + 1
    /\ \E r \in {instUpdateSeed(Inst, file, now, io)} :
          /\ SetInst(r.st)
          /\ file' = r.file
          /\ last' = [NoCall EXCEPT !.op = "UpdateSeed", !.err = r.err,
                                    !.out = IF r.seed.exists THEN <<r.seed.seg>>
                                            ELSE << >>]
    /\ UNCHANGED <<now, nadds, nreads, nseeds, concVars, moreVars>>

\* FromSeed(filename): the instance of the model becomes the one returned;
\* on an error none is returned and the model keeps the one it has
FromSeed ==
    /\ nfops < MaxFileOps
    /\ nfops' = nfops + 1
    /\ IF checkSeedFile(file) # "nil"
       THEN UNCHANGED <<initialised, pools, counter, gen, lastReseed>>
       ELSE SetInst(fromSeed(file))
    /\ last' = [NoCall EXCEPT !.op = "FromSeed", !.err = checkSeedFile(file)]
    /\ UNCHANGED <<now, nadds, nreads, nseeds, concVars, file, moreVars>>

\* the seed file found at start: none, a seed, a file one byte short
InitialFiles ==
    {NoFile, FileOf(SeedFileLength, RawSeg(Bytes(SeedFileLength, 33))),
     FileOf(SeedFileLength - 1, RawSeg(Bytes(SeedFileLength - 1, 33)))}

FileInit ==
    /\ CoreInit([t \in Threads |-> << >>])
    /\ file \in InitialFiles
    /\ nfops = 0
    /\ MoreInit

\* seeds, the seed file, entropy events and reads
FileNext ==
    \/ Seed
    \/ \E io \in IoOutcomes : WriteSeed(io)
    \/ \E io \in IoOutcomes : UpdateSeed(io)
    \/ FromSeed
    \/ ReadSeed(Slice(Bytes(SeedFileLength, 17)))
    \/ \E s \in Sources : AddRandomEvent(s, 0, Slice(Bytes(MaxEventSize, 60)))

FileSpec == FileInit /\ [][FileNext]_vars

(***************************************************************************)
(* The Tunafish variant (tunafish/prng.go): the same accumulator with       *)
(* Keccak-256 as the pool hash, its own MinPoolSize, no test of            *)
(* Initialised() in AddRandomEvent and its own ReadSeed and FromSeed.  Its  *)
(* generator is the AES-256 and SHA-256 generator above.                   *)
(***************************************************************************)
TunaMinPoolSize == 32

\* sha3.NewKeccak256(); h.Write(bs); h.Sum(nil)
KeccakSeg(bs) == [t |-> "keccak256", v |-> bs]

tunaMustReseed(ps, lr, t) ==
    /\ ps[0].written >= TunaMinPoolSize
    /\ After(t, lr + ReseedDelay)

tunaDrainPool(pl) ==
    [digest |-> KeccakSeg(pl.hash), pool |-> [pl EXCEPT !.hash = << >>]]

RECURSIVE tunaReseedLoop(_, _, _, _, _)
tunaReseedLoop(ps, c, i, s, drained) ==
    IF i >= PoolSize THEN [pools |-> ps, s |-> s, drained |-> drained]
    ELSE IF poolSelected(i, c)
         THEN tunaReseedLoop([ps EXCEPT ![i] = tunaDrainPool(ps[i]).pool], c, i + 1,
                             Append(s, tunaDrainPool(ps[i]).digest),
                             drained \cup {i})
         ELSE tunaReseedLoop(ps, c, i + 1, s, drained)

\* the reseed once the loop over the pools has returned lp
tunaReseedDone(c1, lp, g, t) ==
    [counter |-> c1, pools |-> lp.pools, gen |-> GenWrite(g, lp.s),
     lastReseed |-> t, drained |-> lp.drained]

tunaReseed(ps, c, g, t) ==
    tunaReseedDone(U32Inc(c), tunaReseedLoop(ps, U32Inc(c), 0, << >>, {}), g, t)

TunaRead(p) ==
    \E must \in {tunaMustReseed(pools, lastReseed, now)} :
    \E rs \in {IF must THEN tunaReseed(pools, counter, gen, now)
                ELSE noReseed(pools, counter, gen, lastReseed)} :
    \E res \in {readAfterCheck(rs.counter, rs.gen, p)} :
        /\ counter' = rs.counter
        /\ pools' = rs.pools
        /\ lastReseed' = rs.lastReseed
        /\ gen' = res.g
        /\ last' = [NoCall EXCEPT !.op = "Read", !.p = p, !.n = res.n,
                                  !.err = res.err, !.reseeded = must,
                                  !.drained = rs.drained, !.out = res.out]
        /\ IF must \/ res.g # gen
           THEN nreads < MaxReads /\ nreads' = nreads + 1
           ELSE nreads' = nreads
        /\ UNCHANGED <<initialised, now, nadds, nseeds, concVars, extVars>>

\* the checks of Tunafish.AddRandomEvent
tunaCheckEvent(i, e) ==
    IF e.isNil \/ len(e) = 0 \/ len(e) > MaxEventSize THEN "ErrInvalidEvent"
    ELSE IF i < 0 \/ i > PoolSize THEN "ErrInvalidEvent"
    ELSE IF i \notin PoolIndex THEN "panic"
    ELSE "nil"

TunaAddRandomEvent(s, i, e) ==
    \E err \in {tunaCheckEvent(i, e)} :
        /\ IF err = "nil"
           THEN /\ nadds < MaxAdds
                /\ pools' = [pools EXCEPT ![i] = addToPool(pools[i], s, e)]
                /\ nadds' = nadds + 1
           ELSE UNCHANGED <<pools, nadds>>
        /\ last' = [NoCall EXCEPT !.op = "AddRandomEvent", !.s = s, !.i = i,
                                  !.e = e, !.err = err]
        /\ UNCHANGED <<initialised, counter, gen, lastReseed, now, nreads, nseeds,
                       concVars, extVars>>

\* Tunafish.ReadSeed(p) on generator g and reseed counter c
tunaReadSeed(g, c, p) ==
    IF checkSeed(p) # "nil" THEN [err |-> checkSeed(p), gen |-> g, counter |-> c]
    ELSE [err |-> "nil", gen |-> GenWrite(g, <<RawSeg(p.data)>>), counter |-> c]

TunaReadSeed(p) ==
    \E r \in {tunaReadSeed(gen, counter, p)} :
        /\ IF r.err = "nil"
           THEN nseeds < MaxSeeds /\ nseeds' = nseeds + 1
           ELSE nseeds' = nseeds
        /\ gen' = r.gen
        /\ counter' = r.counter
        /\ last' = [NoCall EXCEPT !.op = "ReadSeed", !.e = p, !.err = r.err]
        /\ UNCHANGED <<initialised, pools, lastReseed, now, nadds, nreads,
                       concVars, extVars>>

\* tunafish.FromSeed(filename), the file accepted: the instance returned
tunaFromSeed(f) ==
    [NewInst EXCEPT !.gen = GenWrite(@, <<f.seg>>)]

TunaFromSeed ==
    /\ nfops < MaxFileOps
    /\ nfops' = nfops + 1
    /\ IF checkSeedFile(file) # "nil"
       THEN UNCHANGED <<initialised, pools, counter, gen, lastReseed>>
       ELSE SetInst(tunaFromSeed(file))
    /\ last' = [NoCall EXCEPT !.op = "FromSeed", !.err = checkSeedFile(file)]
    /\ UNCHANGED <<now, nadds, nreads, nseeds, concVars, file, moreVars>>

TunaNext ==
    \/ \E p \in Seeds : TunaReadSeed(p)
    \/ TunaFromSeed
    \/ \E p \in Dests : TunaRead(p)
    \/ \E s \in Sources, ev \in GoodPools \X GoodPayloads :
            TunaAddRandomEvent(s, ev[1], ev[2])

TunaSpec == FileInit /\ [][TunaNext]_vars

(***************************************************************************)
(* Two instances side by side: both are given the same seed, the same      *)
(* events and the same reads, and both read the same clock.               *)
(***************************************************************************)
MaxTwinOps == 5

\* (mutant) a clock that runs k times as fast for the k-th instance
timeNowSkewed(t, k) == t * k

\* time.Now() as the k-th instance reads it at time t
timeNow(t, k) == t

\* rng.ReadSeed(p) on instance st
instReadSeed(st, p) ==
    [st |-> [st EXCEPT !.gen = readSeed(st.gen, st.counter, p).gen,
                       !.counter = readSeed(st.gen, st.counter, p).counter],
     err |-> readSeed(st.gen, st.counter, p).err]

\* rng.ReadSeed(seed), seed the slice that Seed returned
instReadSeedOf(st, seed) ==
    IF seed.len # SeedFileLength THEN [st |-> st, err |-> "ErrInvalidSeed"]
    ELSE [st |-> [st EXCEPT !.gen = GenWrite(@, <<seed.seg>>),
                            !.counter = U32Inc(@)],
          err |-> "nil"]

\* rng.AddRandomEvent(s, i, e) on instance st, the event one that is accepted
instAdd(st, s, i, e) ==
    [st EXCEPT !.pools = [@ EXCEPT ![i] = addToPool(@, s, e)]]

\* seed, err := rng.Seed(); if err == nil { err = rng.ReadSeed(seed) }
seedThenRead(r) ==
    IF r.err # "nil" THEN [st |-> r.st, err |-> "none"]
    ELSE instReadSeedOf(r.st, r.seed)

twinStep == twin.n < MaxTwinOps

TwinReadSeed(p) ==
    /\ twinStep
    /\ ~twin.seeded
    /\ twin.n = 0
    /\ checkSeed(p) = "nil"
    /\ twin' = [twin EXCEPT !.a = instReadSeed(@, p).st,
                            !.b = instReadSeed(@, p).st,
                            !.seeded = TRUE, !.n = @ + 1]
    /\ UNCHANGED <<seqVars, concVars, fileVars, exceptTwin>>

TwinAddRandomEvent(s, i, e) ==
    /\ twinStep
    /\ checkEvent(twin.a.initialised, i, e) = "nil"
    /\ checkEvent(twin.b.initialised, i, e) = "nil"
    /\ twin' = [twin EXCEPT !.a = instAdd(@, s, i, e),
                            !.b = instAdd(@, s, i, e), !.n = @ + 1]
    /\ UNCHANGED <<seqVars, concVars, fileVars, exceptTwin>>

TwinRead(p) ==
    /\ twinStep
    /\ \E x \in {instRead(twin.a, p, timeNow(now, 1))},
          y \in {instRead(twin.b, p, timeNow(now, 2))} :
          twin' = [twin EXCEPT !.a = x.st, !.b = y.st,
                               !.ra = [n |-> x.n, err |-> x.err, out |-> x.out,
                                       reseeded |-> x.reseeded],
                               !.rb = [n |-> y.n, err |-> y.err, out |-> y.out,
                                       reseeded |-> y.reseeded],
                               !.n = @ + 1]
    /\ UNCHANGED <<seqVars, concVars, fileVars, exceptTwin>>

\* each instance takes a seed from Seed and hands it to its own ReadSeed
TwinSeed ==
    /\ twinStep
    /\ \E x \in {seedThenRead(instSeed(twin.a, timeNow(now, 1)))},
          y \in {seedThenRead(instSeed(twin.b, timeNow(now, 2)))} :
          twin' = [twin EXCEPT !.a = x.st, !.b = y.st,
                               !.restore = IF x.err = y.err THEN x.err
                                           ELSE "differ",
                               !.n = @ + 1]
    /\ UNCHANGED <<seqVars, concVars, fileVars, exceptTwin>>

TwinNext ==
    \/ TwinReadSeed(Slice(Bytes(SeedFileLength, 17)))
    \/ \E s \in Sources, e \in GoodPayloads : TwinAddRandomEvent(s, 0, e)
    \/ TwinRead(Buf(BlockSize + 1))
    \/ TwinSeed
    \/ Tick

TwinSpec == Init /\ [][TwinNext]_vars

(***************************************************************************)
(* SourceWriter (sources.go).  Write(p) is a loop of AddRandomEvent calls, *)
(* one step of the model each; the instance can be marked uninitialised    *)
(* by the seed-file task between two of them.                              *)
(***************************************************************************)
MaxWrites == 2
WriterSource == 9

\* k := len(p) / MaxEventSize; if len(p)%MaxEventSize != 0 { k++ }
chunkCount(n) == (n \div MaxEventSize) + (IF n % MaxEventSize # 0 THEN 1 ELSE 0)

\* wrsz of iteration j of k, rest the length of pp
chunkSize(j, k, rest) ==
    IF j = k - 1 /\ rest % MaxEventSize # 0 THEN rest % MaxEventSize
    ELSE MaxEventSize

\* (mutant) a writer that never moves to the next pool
nextPoolStuck(i) == i

\* sw.i = (sw.i + 1) % len(sw.rng.pools)
nextPool(i) == (i + 1) % PoolSize

\* pp[:wrsz], pp the part of p after the first off bytes
chunkAt(p, off, wrsz) == Slice(SubSeq(p.data, off + 1, off + wrsz))

\* Write(p) entered: p == nil returns (0, nil) at once
SwWrite(p) ==
    /\ sw.pc = "idle"
    /\ sw.writes < MaxWrites
    /\ sw' = IF p.isNil
             THEN [sw EXCEPT !.p = p, !.off = 0, !.k = 0, !.j = 0, !.i0 = sw.i,
                             !.calls = << >>, !.n = 0, !.err = "nil",
                             !.writes = @ + 1]
             ELSE [sw EXCEPT !.pc = "loop", !.p = p, !.off = 0,
                             !.k = chunkCount(len(p)), !.j = 0, !.i0 = sw.i,
                             !.calls = << >>, !.n = 0, !.err = "nil",
                             !.writes = @ + 1]
    /\ UNCHANGED <<seqVars, concVars, fileVars, exceptSw>>

\* one iteration of the loop: the chunk is offered to AddRandomEvent
SwChunk ==
    /\ sw.pc = "loop"
    /\ sw.j < sw.k
    /\ \E wrsz \in {chunkSize(sw.j, sw.k, len(sw.p) - sw.off)} :
       \E e \in {chunkAt(sw.p, sw.off, wrsz)} :
       \E err \in {checkEvent(initialised, sw.i, e)} :
          /\ err # "panic"
          /\ pools' = IF err = "nil"
                      THEN [pools EXCEPT ![sw.i] = addToPool(@, WriterSource, e)]
                      ELSE pools
          /\ sw' = IF err # "nil"
                   THEN [sw EXCEPT !.pc = "idle", !.i = nextPool(@),
                                   !.calls = Append(@, [i |-> sw.i, e |-> e.data,
                                                        err |-> err]),
                                   !.n = sw.off, !.err = err]
                   ELSE [sw EXCEPT !.i = nextPool(@), !.off = @ + wrsz,
                                   !.j = @ + 1,
                                   !.calls = Append(@, [i |-> sw.i, e |-> e.data,
                                                        err |-> err])]
    /\ UNCHANGED <<initialised, counter, gen, lastReseed, now, nadds, nreads,
                   nseeds, last, concVars, fileVars, exceptSw>>

\* the loop is over: return len(p), nil
SwReturn ==
    /\ sw.pc = "loop"
    /\ sw.j >= sw.k
    /\ sw' = [sw EXCEPT !.pc = "idle", !.n = len(sw.p), !.err = "nil"]
    /\ UNCHANGED <<seqVars, concVars, fileVars, exceptSw>>

\* rng.initialised = false, by the task that AutoUpdate started
MarkUninitialised ==
    /\ initialised
    /\ initialised' = FALSE
    /\ UNCHANGED <<pools, counter, gen, lastReseed, now, nadds, nreads, nseeds,
                   last, concVars, extVars>>

\* the bytes 1, 2, ... of a buffer of n bytes
Ramp(n) == [j \in 1 .. n |-> j % 256]

WriterInputs ==
    {NilSlice, Slice(<< >>), Slice(Ramp(MaxEventSize + 8)),
     Slice(Ramp(2 * MaxEventSize)), Slice(Ramp(PoolSize * MaxEventSize + 6))}

WriterNext ==
    \/ \E p \in WriterInputs : SwWrite(p)
    \/ SwChunk
    \/ SwReturn
    \/ MarkUninitialised

WriterSpec == Init /\ [][WriterNext]_vars

(***************************************************************************)
(* SourceChannel (sources.go): the worker that Start launches, a producer  *)
(* that sends events on In, a consumer that receives errors from Out, and  *)
(* a caller of Stop.  The worker reads the fields cs.In and cs.Out each    *)
(* time round its loop while Stop assigns nil to them with no              *)
(* synchronisation: once the field is nil the worker's read finds either   *)
(* nil or the channel.                                                     *)
(***************************************************************************)
ChanBuf == 2
MaxSends == 3
MaxStops == 2
ChanSource == 5

\* cs.Start(buf): the two channels are made and the worker is launched
ChStart ==
    /\ ~cs.started
    /\ cs' = [cs EXCEPT !.started = TRUE, !.inNil = FALSE, !.outNil = FALSE,
                        !.wpc = "recv"]
    /\ UNCHANGED <<seqVars, concVars, fileVars, exceptCs>>

\* the producer: cs.In <- e, while Stop has not been called
ChSend(e) ==
    /\ cs.started /\ cs.stops = 0 /\ cs.spc = "idle"
    /\ Len(cs.sent) < MaxSends
    /\ Len(cs.inq) < ChanBuf
    /\ cs' = [cs EXCEPT !.inq = Append(@, e), !.sent = Append(@, e)]
    /\ UNCHANGED <<seqVars, concVars, fileVars, exceptCs>>

\* what a read of a field that Stop has set to nil can find
fieldRead(isNil) == IF isNil THEN {"nil", "chan"} ELSE {"chan"}

\* e, ok := <-cs.In; if !ok { return }
WorkerRecv ==
    /\ cs.wpc = "recv"
    /\ \E f \in fieldRead(cs.inNil) :
          IF f = "nil" THEN cs' = [cs EXCEPT !.wpc = "stuck"]
          ELSE IF cs.inq # << >>
               THEN cs' = [cs EXCEPT !.e = Head(cs.inq), !.inq = Tail(@),
                                     !.wpc = "apply"]
               ELSE /\ cs.inClosed
                    /\ cs' = [cs EXCEPT !.wpc = "exited"]
    /\ UNCHANGED <<seqVars, concVars, fileVars, exceptCs>>

\* cs.i = (cs.i + 1) % len(cs.rng.pools)
nextChanPool(i) == (i + 1) % PoolSize

\* err := cs.rng.AddRandomEvent(cs.s, cs.i, e); with no error the index moves on
WorkerApply ==
    /\ cs.wpc = "apply"
    /\ \E err \in {checkEvent(initialised, cs.i, cs.e)} :
          /\ err # "panic"
          /\ pools' = IF err = "nil"
                      THEN [pools EXCEPT ![cs.i] = addToPool(@, ChanSource, cs.e)]
                      ELSE pools
          /\ cs' = IF err = "nil"
                   THEN [cs EXCEPT !.applied = Append(@, [i |-> cs.i, e |-> cs.e,
                                                          err |-> err]),
                                   !.i = nextChanPool(@), !.wpc = "recv"]
                   ELSE [cs EXCEPT !.applied = Append(@, [i |-> cs.i, e |-> cs.e,
                                                          err |-> err]),
                                   !.err = err, !.wpc = "send"]
    /\ UNCHANGED <<initialised, counter, gen, lastReseed, now, nadds, nreads,
                   nseeds, last, concVars, fileVars, exceptCs>>

\* cs.Out <- err, then the index moves on: a send on a nil channel never
\* returns, a send on a closed channel panics
WorkerSend ==
    /\ cs.wpc = "send"
    /\ \E f \in fieldRead(cs.outNil) :
          IF f = "nil" THEN cs' = [cs EXCEPT !.wpc = "stuck"]
          ELSE IF cs.outClosed THEN cs' = [cs EXCEPT !.wpc = "panic"]
          ELSE /\ Len(cs.outq) < ChanBuf
               /\ cs' = [cs EXCEPT !.outq = Append(@, cs.err),
                                   !.i = nextChanPool(@), !.wpc = "recv"]
    /\ UNCHANGED <<seqVars, concVars, fileVars, exceptCs>>

\* the consumer: <-cs.Out
ChRecvErr ==
    /\ cs.outq # << >>
    /\ cs' = [cs EXCEPT !.outq = Tail(@)]
    /\ UNCHANGED <<seqVars, concVars, fileVars, exceptCs>>

\* Stop, first half: if cs.In != nil { close(cs.In); cs.In = nil }
StopIn ==
    /\ cs.started /\ cs.spc = "idle"
    /\ cs.stops < MaxStops
    /\ cs' = IF cs.inNil THEN [cs EXCEPT !.spc = "out"]
             ELSE [cs EXCEPT !.inClosed = TRUE, !.inNil = TRUE, !.spc = "out",
                             !.closes = @ + 1]
    /\ UNCHANGED <<seqVars, concVars, fileVars, exceptCs>>

\* Stop, second half: if cs.Out != nil { close(cs.Out); cs.Out = nil }
StopOut ==
    /\ cs.spc = "out"
    /\ cs' = IF cs.outNil THEN [cs EXCEPT !.spc = "idle", !.stops = @ + 1]
             ELSE [cs EXCEPT !.outClosed = TRUE, !.outNil = TRUE,
                             !.spc = "idle", !.stops = @ + 1, !.closes = @ + 1]
    /\ UNCHANGED <<seqVars, concVars, fileVars, exceptCs>>

ChanEvents == {Slice(Bytes(12, 90)), Slice(Bytes(MaxEventSize, 60)), Slice(<< >>)}

ChannelNext ==
    \/ ChStart
    \/ \E e \in ChanEvents : ChSend(e)
    \/ WorkerRecv
    \/ WorkerApply
    \/ WorkerSend
    \/ ChRecvErr
    \/ StopIn
    \/ StopOut

ChannelSpec == Init /\ [][ChannelNext]_vars

(***************************************************************************)
(* AutoUpdate (doc.go): the task, the owner of the shutdown channel, who   *)
(* sends values on it or closes it, and the receiver of fsError.  Both     *)
(* channels are unbuffered in the model: a send and its receive are one    *)
(* step.  au.log is the history of what the task did once it had seen the  *)
(* shutdown channel closed.                                                *)
(***************************************************************************)
MaxValues == 1
MaxTimers == 1
UpdateInterval == 600000
MaxTicks == 3
ClockStep == 300000

\* rng.AutoUpdate(filename, shutdown, fsError): the task is launched
AuStart ==
    /\ au.pc = "off"
    /\ au' = [au EXCEPT !.pc = "select", !.armed = now, !.since = now]
    /\ UNCHANGED <<seqVars, concVars, fileVars, exceptAu>>

\* the owner closes the shutdown channel
CloseShutdown ==
    /\ ~au.shClosed
    /\ au' = [au EXCEPT !.shClosed = TRUE]
    /\ UNCHANGED <<seqVars, concVars, fileVars, exceptAu>>

\* (mutant) a task that takes a value as the signal and a close as no signal
leavesLoopOnValue(ok) == ok

\* case _, ok := <-shutdown: if ok { continue }: whether the task goes on
\* to the final WriteSeed
leavesLoop(ok) == ~ok

\* the owner sends a value on the shutdown channel and the select receives
\* it; the continue enters the select again, with a new time.After
RecvValue ==
    /\ au.pc = "select"
    /\ ~au.shClosed
    /\ au.values < MaxValues
    /\ au' = [au EXCEPT !.values = @ + 1, !.armed = now,
                        !.pc = IF leavesLoop(TRUE) THEN "final" ELSE "select"]
    /\ UNCHANGED <<seqVars, concVars, fileVars, exceptAu>>

\* the select receives from the closed shutdown channel
RecvClosed ==
    /\ au.pc = "select"
    /\ au.shClosed
    /\ au' = [au EXCEPT !.pc = IF leavesLoop(FALSE) THEN "final" ELSE "select"]
    /\ UNCHANGED <<seqVars, concVars, fileVars, exceptAu>>

\* err := rng.WriteSeed(filename) of the shutdown case: its Seed, then its
\* WriteFile
FinalWriteSeed(io) ==
    /\ au.pc = "final"
    /\ \E s \in {instSeed(Inst, now)} :
       \E r \in {writeSeedDone(s, file, io)} :
          /\ SetInst(r.st)
          /\ file' = r.file
          /\ au' = [au EXCEPT !.err = r.err, !.finals = @ + 1,
                              !.log = Append(@, "write"),
                              !.pc = IF r.err # "nil" THEN "fsend" ELSE "close"]
    /\ UNCHANGED <<now, nadds, nreads, nseeds, last, concVars, nfops, exceptAu>>

\* fsError <- err of the shutdown case, taken by the receiver
FinalSend ==
    /\ au.pc = "fsend"
    /\ au.errCloses = 0
    /\ au' = [au EXCEPT !.got = Append(@, au.err), !.log = Append(@, "send"),
                        !.pc = "close"]
    /\ UNCHANGED <<seqVars, concVars, fileVars, exceptAu>>

\* close(fsError)
CloseErrors ==
    /\ au.pc = "close"
    /\ au' = [au EXCEPT !.errCloses = @ + 1, !.log = Append(@, "close"),
                        !.pc = "mark"]
    /\ UNCHANGED <<seqVars, concVars, fileVars, exceptAu>>

\* rng.initialised = false; return
MarkAndExit ==
    /\ au.pc = "mark"
    /\ initialised' = FALSE
    /\ au' = [au EXCEPT !.log = Append(@, "mark"), !.pc = "exited"]
    /\ UNCHANGED <<pools, counter, gen, lastReseed, now, nadds, nreads, nseeds,
                   last, concVars, fileVars, exceptAu>>

\* the time at which the channel of time.After(10 * time.Minute), made at
\* time armed, is received from when the clock reads t
timerFires(armed, t) ==
    IF t > armed + UpdateInterval THEN t ELSE armed + UpdateInterval

\* case <-time.After(10 * time.Minute): err := rng.WriteSeed(filename); with
\* no error the select is entered again at once
TimerWriteSeed(io) ==
    /\ au.pc = "select"
    /\ au.timers < MaxTimers
    /\ now' = timerFires(au.armed, now)
    /\ \E s \in {instSeed(Inst, timerFires(au.armed, now))} :
       \E r \in {writeSeedDone(s, file, io)} :
          /\ SetInst(r.st)
          /\ file' = r.file
          /\ au' = IF r.err # "nil"
                   THEN [au EXCEPT !.err = r.err, !.timers = @ + 1, !.pc = "tsend"]
                   ELSE [au EXCEPT !.err = r.err, !.timers = @ + 1,
                                   !.armed = timerFires(au.armed, now),
                                   !.since = timerFires(au.armed, now)]
    /\ UNCHANGED <<nadds, nreads, nseeds, last, concVars, nfops, exceptAu>>

\* fsError <- err of the timer case, taken by the receiver
TimerSend ==
    /\ au.pc = "tsend"
    /\ au' = [au EXCEPT !.got = Append(@, au.err), !.pc = "select",
                        !.armed = now, !.since = now]
    /\ UNCHANGED <<seqVars, concVars, fileVars, exceptAu>>

\* five minutes pass
MinutesPass ==
    /\ au.ticks < MaxTicks
    /\ now' = now + ClockStep
    /\ au' = [au EXCEPT !.ticks = @ + 1]
    /\ UNCHANGED <<initialised, pools, counter, gen, lastReseed, nadds, nreads,
                   nseeds, last, concVars, fileVars, exceptAu>>

\* a step of the task
AutoTask ==
    \/ RecvClosed
    \/ \E io \in IoOutcomes : FinalWriteSeed(io)
    \/ FinalSend
    \/ CloseErrors
    \/ MarkAndExit
    \/ TimerSend

AutoNext ==
    \/ AuStart
    \/ CloseShutdown
    \/ RecvValue
    \/ RecvClosed
    \/ \E io \in IoOutcomes : FinalWriteSeed(io)
    \/ FinalSend
    \/ CloseErrors
    \/ MarkAndExit
    \/ \E io \in IoOutcomes : TimerWriteSeed(io)
    \/ TimerSend
    \/ ReadSeed(Slice(Bytes(SeedFileLength, 17)))

AutoSpec == Init /\ [][AutoNext]_vars

\* the task while the shutdown channel stays open, and the clock
TimerNext ==
    \/ AuStart
    \/ MinutesPass
    \/ RecvValue
    \/ \E io \in IoOutcomes : TimerWriteSeed(io)
    \/ TimerSend
    \/ ReadSeed(Slice(Bytes(SeedFileLength, 17)))

TimerSpec == Init /\ [][TimerNext]_vars

\* the task is a goroutine that is scheduled whenever it can take a step,
\* and fsError has a receiver
AutoFairSpec == AutoSpec /\ WF_vars(AutoTask)

(***************************************************************************)
(* The public operations on an instance that the seed-file task marks      *)
(* uninitialised at some point.                                            *)
(***************************************************************************)
DownNext ==
    \/ MarkUninitialised
    \/ \E s \in Sources : AddRandomEvent(s, 0, Slice(Bytes(MaxEventSize, 60)))
    \/ \E p \in {NilBuf, Buf(BlockSize + 1)} : Read(p)
    \/ ReadSeed(Slice(Bytes(SeedFileLength, 17)))
    \/ Seed
    \/ \E io \in IoOutcomes : WriteSeed(io)
    \/ \E io \in IoOutcomes : UpdateSeed(io)

DownSpec == FileInit /\ [][DownNext]_vars

(***************************************************************************)
(* The generator used on its own, as its tests use it: the chunked         *)
(* Generator (part_001) and the capped one (fortuna.go), which differ in   *)
(* Read.                                                                   *)
(***************************************************************************)
MaxGenOps == 3

\* (mutant) a cap that also refuses a buffer of exactly MaxRead bytes
tooLargeAtCap(n) == n >= MaxRead

\* len(bs) > MaxRead
tooLarge(n) == n > MaxRead

\* Generator.Read(bs) of the capped variant: [n, err, g, out]
capRead(g, p) ==
    IF p.isNil THEN [n |-> 0, err |-> "nil", g |-> g, out |-> << >>]
    ELSE IF tooLarge(p.len)
    THEN [n |-> 0, err |-> "ErrReadTooLarge", g |-> g, out |-> << >>]
    ELSE LET a == generateBlocks(g, blocksFor(p.len))
             b == generateBlocks(a.g, 2)
         IN  [n |-> p.len, err |-> "nil", g |-> installKey(b.g, b.r),
              out |-> <<copyBlocks(p.len, a.r)>>]

\* the generator after a call, and the call and its result
gtDone(op, k, s, p, r) ==
    /\ gt' = [g |-> r.g, prev |-> gt.g, op |-> op, k |-> k, s |-> s, p |-> p,
              n |-> r.n, err |-> r.err, out |-> r.out, ops |-> gt.ops + 1]
    /\ UNCHANGED <<seqVars, concVars, fileVars, exceptGt>>

\* g.Write(s): the state left and (len(s), nil)
GtWrite(s) ==
    /\ gt.ops < MaxGenOps
    /\ gtDone("Write", 0, s, NilBuf,
              [g |-> GenWrite(gt.g, hashWrite(s)), n |-> len(s), err |-> "nil",
               out |-> << >>])

\* g.Reseed(string(s)): the state left, nothing returned
GtReseed(s) ==
    /\ gt.ops < MaxGenOps
    /\ gtDone("Reseed", 0, s, NilBuf,
              [g |-> GenReseed(gt.g, goString(s)), n |-> 0, err |-> "nil",
               out |-> << >>])

GtGenerateBlocks(k) ==
    /\ gt.ops < MaxGenOps
    /\ gtDone("generateBlocks", k, NilSlice, NilBuf,
              [g |-> generateBlocks(gt.g, k).g, n |-> 0, err |-> "nil",
               out |-> <<generateBlocks(gt.g, k).r>>])

GtRead(p) ==
    /\ gt.ops < MaxGenOps
    /\ gtDone("Read", 0, NilSlice, p, GenRead(gt.g, p))

GtCapRead(p) ==
    /\ gt.ops < MaxGenOps
    /\ gtDone("Read", 0, NilSlice, p, capRead(gt.g, p))

GenSeeds == {NilSlice, Slice(<< >>), Slice(Bytes(13, 105)), Slice(<<0, 128, 255>>)}
GenBlockCounts == {0, 1, 255}
GenDests ==
    {NilBuf, Buf(0), Buf(1), Buf(BlockSize + 1), Buf(MaxRead), Buf(MaxRead + 1),
     Buf(2 * MaxRead + BlockSize + 1)}

GenNext ==
    \/ \E s \in GenSeeds : GtWrite(s)
    \/ \E s \in GenSeeds : GtReseed(s)
    \/ \E k \in GenBlockCounts : GtGenerateBlocks(k)
    \/ \E p \in GenDests : GtRead(p)

GenSpec == Init /\ [][GenNext]_vars

CapNext ==
    \/ \E s \in GenSeeds : GtWrite(s)
    \/ \E s \in GenSeeds : GtReseed(s)
    \/ \E k \in GenBlockCounts : GtGenerateBlocks(k)
    \/ \E p \in GenDests : GtCapRead(p)

CapSpec == Init /\ [][CapNext]_vars

(***************************************************************************)
(* Concurrent callers.  Each thread runs AddRandomEvent or Read one memory *)
(* access at a time.  The fields of a pool are accessed only inside the    *)
(* pool's mutex, and lastReseed only inside its own, so a critical section *)
(* that a thread enters and leaves within one call of Lock/Unlock and that *)
(* does one thing is one step, enabled when the mutex is free.  The        *)
(* generator (key, counter) and rng.counter are accessed without any lock: *)
(* every load and every store of them is a step of its own.                *)
(***************************************************************************)
AddOp(i, n, b) == [op |-> "AddRandomEvent", i |-> i, e |-> Bytes(n, b), p |-> NilBuf]
ReadOp(p) == [op |-> "Read", i |-> 0, e |-> << >>, p |-> p]
ReadSeedOp(n, b) == [op |-> "ReadSeed", i |-> 0, e |-> Bytes(n, b), p |-> NilBuf]

\* the next call of thread t, when it has one
HasNext(t) == Len(todo[t]) > 0
NextOp(t) == Head(todo[t])

\* (mutant) Lock() that does not wait
lockIgnored(lk, i) == TRUE

\* pools[i].Lock() can return: the mutex is free
lockFree(lk, i) == lk[i] = 0

\* the index of lastReseed.Mutex in locks
LastReseedLock == PoolSize

\* Lock() returns to thread t
lock(lk, i, t) == [lk EXCEPT ![i] = t]

\* (mutant) a return without Unlock()
unlockForgotten(lk, i) == lk

\* Unlock()
unlock(lk, i) == [lk EXCEPT ![i] = 0]

\* the frame of an event
Frame(s, e) == <<s, Len(e) % 256>> \o e

\* back to the caller: the locals are dropped, the result kept
Return(t, n, err) ==
    /\ pc' = [pc EXCEPT ![t] = "idle"]
    /\ loc' = [loc EXCEPT ![t] = [LocInit EXCEPT !.op = loc[t].op,
                                                 !.call = loc[t].call,
                                                 !.n = n, !.err = err]]

Goto(t, label) == pc' = [pc EXCEPT ![t] = label]

\* an identifier of the call thread t starts now: earlier calls of a thread
\* have smaller identifiers
CallId(t) == 10 * t + (9 - Len(todo[t]))

\* ---- AddRandomEvent(s, i, e), the event valid ----
AddCall(t) ==
    /\ pc[t] = "idle"
    /\ HasNext(t)
    /\ NextOp(t).op = "AddRandomEvent"
    /\ LET i == NextOp(t).i
           e == NextOp(t).e
       IN  /\ checkEvent(initialised, i, Slice(e)) = "nil"
           /\ loc' = [loc EXCEPT ![t] = [LocInit EXCEPT !.op = "AddRandomEvent",
                                                        !.s = t, !.i = i, !.e = e,
                                                        !.call = CallId(t)]]
    /\ todo' = [todo EXCEPT ![t] = Tail(@)]
    /\ Goto(t, "addLock")
    /\ UNCHANGED <<extVars, seqVars, locks, encs, reseedLog, evlog, drains>>

AddLock(t) ==
    /\ pc[t] = "addLock"
    /\ lockFree(locks, loc[t].i)
    /\ locks' = lock(locks, loc[t].i, t)
    /\ evlog' = [evlog EXCEPT ![loc[t].i] =
                    Append(@, [call |-> loc[t].call, t |-> t, s |-> loc[t].s,
                               e |-> loc[t].e])]
    /\ Goto(t, "addSource")
    /\ UNCHANGED <<extVars, seqVars, loc, encs, reseedLog, drains, todo>>

AddSource(t) ==
    /\ pc[t] = "addSource"
    /\ pools' = [pools EXCEPT ![loc[t].i].hash = Append(@, loc[t].s)]
    /\ Goto(t, "addLength")
    /\ UNCHANGED <<extVars, initialised, counter, gen, lastReseed, now, nadds, nreads,
                   nseeds, last, loc, locks, encs, reseedLog, evlog, drains, todo>>

AddLength(t) ==
    /\ pc[t] = "addLength"
    /\ pools' = [pools EXCEPT ![loc[t].i].hash = Append(@, Len(loc[t].e) % 256)]
    /\ Goto(t, "addPayload")
    /\ UNCHANGED <<extVars, initialised, counter, gen, lastReseed, now, nadds, nreads,
                   nseeds, last, loc, locks, encs, reseedLog, evlog, drains, todo>>

\* the payload appended, written updated, the mutex released
AddPayload(t) ==
    /\ pc[t] = "addPayload"
    /\ pools' = [pools EXCEPT ![loc[t].i] =
                    [hash |-> @.hash \o loc[t].e,
                     written |-> @.written + (Len(loc[t].e) + 2)]]
    /\ locks' = unlock(locks, loc[t].i)
    /\ Return(t, 0, "nil")
    /\ UNCHANGED <<extVars, initialised, counter, gen, lastReseed, now, nadds, nreads,
                   nseeds, last, encs, reseedLog, evlog, drains, todo>>

\* ---- Read(p) ----
ReadCall(t) ==
    /\ pc[t] = "idle"
    /\ HasNext(t)
    /\ NextOp(t).op = "Read"
    /\ loc' = [loc EXCEPT ![t] = [LocInit EXCEPT !.op = "Read", !.p = NextOp(t).p,
                                                 !.call = CallId(t)]]
    /\ todo' = [todo EXCEPT ![t] = Tail(@)]
    /\ Goto(t, "mustReseedPool")
    /\ UNCHANGED <<extVars, seqVars, locks, encs, reseedLog, evlog, drains>>

\* mustReseed: pools[0].written read under the pool's mutex
MustReseedPool(t) ==
    /\ pc[t] = "mustReseedPool"
    /\ lockFree(locks, 0)
    /\ loc' = [loc EXCEPT ![t].poolReseed = pools[0].written >= MinPoolSize]
    /\ Goto(t, "mustReseedTime")
    /\ UNCHANGED <<extVars, seqVars, locks, encs, reseedLog, evlog, drains, todo>>

\* mustReseed: lastReseed read under its mutex
MustReseedTime(t) ==
    /\ pc[t] = "mustReseedTime"
    /\ loc' = [loc EXCEPT ![t].reseedAt = lastReseed + ReseedDelay]
    /\ Goto(t, "mustReseedNow")
    /\ UNCHANGED <<extVars, seqVars, locks, encs, reseedLog, evlog, drains, todo>>

\* mustReseed: time.Now() and the result
MustReseedNow(t) ==
    /\ pc[t] = "mustReseedNow"
    /\ IF loc[t].poolReseed /\ After(now, loc[t].reseedAt)
       THEN Goto(t, "reseedLoadCounter")
       ELSE Goto(t, "readCheck")
    /\ UNCHANGED <<extVars, seqVars, loc, locks, encs, reseedLog, evlog, drains, todo>>

\* reseed: rng.counter++ is a load and a store
ReseedLoadCounter(t) ==
    /\ pc[t] = "reseedLoadCounter"
    /\ loc' = [loc EXCEPT ![t].c = counter]
    /\ reseedLog' = Append(reseedLog, [call |-> loc[t].call, at |-> now])
    /\ Goto(t, "reseedStoreCounter")
    /\ UNCHANGED <<extVars, seqVars, locks, encs, evlog, drains, todo>>

ReseedStoreCounter(t) ==
    /\ pc[t] = "reseedStoreCounter"
    /\ counter' = U32Inc(loc[t].c)
    /\ loc' = [loc EXCEPT ![t].sbuf = << >>, ![t].idx = 0]
    /\ Goto(t, "reseedPool")
    /\ UNCHANGED <<extVars, initialised, pools, gen, lastReseed, now, nadds, nreads,
                   nseeds, last, locks, encs, reseedLog, evlog, drains, todo>>

\* reseed: one turn of the loop over the pools
ReseedPool(t) ==
    /\ pc[t] = "reseedPool"
    /\ LET i == loc[t].idx
       IN  IF i >= PoolSize
           THEN /\ Goto(t, "writeLoadKey")
                /\ UNCHANGED <<pools, loc, drains>>
           ELSE IF poolSelected(i, counter)
                THEN /\ lockFree(locks, i)
                     /\ pools' = [pools EXCEPT ![i] = drainPool(pools[i]).pool]
                     /\ drains' = [drains EXCEPT ![i] = Append(@, pools[i].hash)]
                     /\ loc' = [loc EXCEPT
                                  ![t].sbuf = Append(@, drainPool(pools[i]).digest),
                                  ![t].idx = i + 1]
                     /\ UNCHANGED pc
                ELSE /\ loc' = [loc EXCEPT ![t].idx = i + 1]
                     /\ UNCHANGED <<pc, pools, drains>>
    /\ UNCHANGED <<extVars, initialised, counter, gen, lastReseed, now, nadds, nreads,
                   nseeds, last, locks, encs, reseedLog, evlog, todo>>

\* reseed: rng.g.Write(s) reads the key, stores the new key, and increments
\* the counter with a load and a store
WriteLoadKey(t) ==
    /\ pc[t] = "writeLoadKey"
    /\ loc' = [loc EXCEPT ![t].key = gen.key]
    /\ Goto(t, "writeStoreKey")
    /\ UNCHANGED <<extVars, seqVars, locks, encs, reseedLog, evlog, drains, todo>>

WriteStoreKey(t) ==
    /\ pc[t] = "writeStoreKey"
    /\ gen' = [gen EXCEPT !.key = HashKey(loc[t].key, loc[t].sbuf)]
    /\ Goto(t, "writeLoadCtr")
    /\ UNCHANGED <<extVars, initialised, pools, counter, lastReseed, now, nadds, nreads,
                   nseeds, last, loc, locks, encs, reseedLog, evlog, drains, todo>>

WriteLoadCtr(t) ==
    /\ pc[t] = "writeLoadCtr"
    /\ loc' = [loc EXCEPT ![t].ctr = gen.ctr]
    /\ Goto(t, "writeStoreCtr")
    /\ UNCHANGED <<extVars, seqVars, locks, encs, reseedLog, evlog, drains, todo>>

WriteStoreCtr(t) ==
    /\ pc[t] = "writeStoreCtr"
    /\ gen' = [gen EXCEPT !.ctr = incCounter(loc[t].ctr)]
    /\ IF loc[t].op = "ReadSeed" THEN Goto(t, "seedLoadCounter")
       ELSE Goto(t, "reseedStamp")
    /\ UNCHANGED <<extVars, initialised, pools, counter, lastReseed, now, nadds, nreads,
                   nseeds, last, loc, locks, encs, reseedLog, evlog, drains, todo>>

\* reseed: lastReseed.Time = time.Now() under its mutex
ReseedStamp(t) ==
    /\ pc[t] = "reseedStamp"
    /\ lastReseed' = now
    /\ Goto(t, "readCheck")
    /\ UNCHANGED <<extVars, initialised, pools, counter, gen, now, nadds, nreads,
                   nseeds, last, loc, locks, encs, reseedLog, evlog, drains, todo>>

\* ---- ReadSeed(p) ----
ReadSeedCall(t) ==
    /\ pc[t] = "idle"
    /\ HasNext(t)
    /\ NextOp(t).op = "ReadSeed"
    /\ todo' = [todo EXCEPT ![t] = Tail(@)]
    /\ IF checkSeed(Slice(NextOp(t).e)) # "nil"
       THEN /\ pc' = pc
            /\ loc' = [loc EXCEPT ![t] = [LocInit EXCEPT !.op = "ReadSeed",
                                                         !.call = CallId(t),
                                                         !.err = "ErrInvalidSeed"]]
       ELSE /\ loc' = [loc EXCEPT ![t] = [LocInit EXCEPT !.op = "ReadSeed",
                                                         !.call = CallId(t),
                                                         !.sbuf = <<RawSeg(NextOp(t).e)>>]]
            /\ Goto(t, "writeLoadKey")
    /\ UNCHANGED <<extVars, seqVars, locks, encs, reseedLog, evlog, drains>>

\* ReadSeed: rng.counter++ is a load and a store
SeedLoadCounter(t) ==
    /\ pc[t] = "seedLoadCounter"
    /\ loc' = [loc EXCEPT ![t].c = counter]
    /\ Goto(t, "seedStoreCounter")
    /\ UNCHANGED <<extVars, seqVars, locks, encs, reseedLog, evlog, drains, todo>>

SeedStoreCounter(t) ==
    /\ pc[t] = "seedStoreCounter"
    /\ counter' = U32Inc(loc[t].c)
    /\ Return(t, 0, "nil")
    /\ UNCHANGED <<extVars, initialised, pools, gen, lastReseed, now, nadds, nreads,
                   nseeds, last, locks, encs, reseedLog, evlog, drains, todo>>

\* Read: the tests on rng.counter and p, and the start of Generator.Read for a
\* destination of at most maxBlocks blocks (one chunk)
ReadCheck(t) ==
    /\ pc[t] = "readCheck"
    /\ IF U32IsZero(counter) THEN Return(t, 0, "ErrNotSeeded")
       ELSE IF loc[t].p.isNil THEN Return(t, 0, "nil")
       ELSE IF chunksFor(blocksFor(loc[t].p.len)) = 0 THEN Return(t, 0, "nil")
       ELSE /\ chunksFor(blocksFor(loc[t].p.len)) = 1
            /\ loc' = [loc EXCEPT ![t].k = blocksFor(loc[t].p.len),
                                  ![t].phase = "data"]
            /\ Goto(t, "newCipher")
    /\ UNCHANGED <<extVars, seqVars, locks, encs, reseedLog, evlog, drains, todo>>

\* generateBlocks: aes.NewCipher(g.key[:]) reads the key
NewCipher(t) ==
    /\ pc[t] = "newCipher"
    /\ loc' = [loc EXCEPT ![t].ckey = gen.key, ![t].r = << >>]
    /\ Goto(t, "encrypt")
    /\ UNCHANGED <<extVars, seqVars, locks, encs, reseedLog, evlog, drains, todo>>

\* generateBlocks: c.Encrypt(block, g.ctr[:]) reads the counter
Encrypt(t) ==
    /\ pc[t] = "encrypt"
    /\ loc' = [loc EXCEPT ![t].r = Append(@, gen.ctr)]
    /\ encs' = encs \cup {[call |-> loc[t].call, role |-> loc[t].phase,
                           key |-> loc[t].ckey, ctr |-> gen.ctr]}
    /\ Goto(t, "incLoad")
    /\ UNCHANGED <<extVars, seqVars, locks, reseedLog, evlog, drains, todo>>

\* generateBlocks: incCounter(g.ctr) is a load and a store
IncLoad(t) ==
    /\ pc[t] = "incLoad"
    /\ loc' = [loc EXCEPT ![t].ctr = gen.ctr]
    /\ Goto(t, "incStore")
    /\ UNCHANGED <<extVars, seqVars, locks, encs, reseedLog, evlog, drains, todo>>

IncStore(t) ==
    /\ pc[t] = "incStore"
    /\ gen' = [gen EXCEPT !.ctr = incCounter(loc[t].ctr)]
    /\ IF loc[t].k > 1
       THEN /\ loc' = [loc EXCEPT ![t].k = @ - 1]
            /\ Goto(t, "encrypt")
       ELSE IF loc[t].phase = "data"
            THEN /\ loc' = [loc EXCEPT ![t].k = newKeyBlocks, ![t].phase = "key",
                                       ![t].data = loc[t].r]
                 /\ Goto(t, "newCipher")
            ELSE /\ loc' = [loc EXCEPT ![t].k = 0]
                 /\ Goto(t, "install")
    /\ UNCHANGED <<extVars, initialised, pools, counter, lastReseed, now, nadds, nreads,
                   nseeds, last, locks, encs, reseedLog, evlog, drains, todo>>

\* blockGenerate: copy(p, r); copy(g.key[:], nk)
Install(t) ==
    /\ pc[t] = "install"
    /\ gen' = [gen EXCEPT !.key = BlocksKey(loc[t].ckey, loc[t].r[1], loc[t].r[2])]
    /\ Return(t, loc[t].p.len, "nil")
    /\ UNCHANGED <<extVars, initialised, pools, counter, lastReseed, now, nadds, nreads,
                   nseeds, last, locks, encs, reseedLog, evlog, drains, todo>>

\* the steps of AddRandomEvent
AddStep(t) ==
    \/ AddCall(t)
    \/ AddLock(t)
    \/ AddSource(t)
    \/ AddLength(t)
    \/ AddPayload(t)

\* the steps of Read up to the generator
ReadStep(t) ==
    \/ ReadCall(t)
    \/ MustReseedPool(t)
    \/ MustReseedTime(t)
    \/ MustReseedNow(t)
    \/ ReadCheck(t)

\* the steps of reseed
ReseedStep(t) ==
    \/ ReseedLoadCounter(t)
    \/ ReseedStoreCounter(t)
    \/ ReseedPool(t)
    \/ ReseedStamp(t)

\* the steps of Generator.Write
WriteStep(t) ==
    \/ WriteLoadKey(t)
    \/ WriteStoreKey(t)
    \/ WriteLoadCtr(t)
    \/ WriteStoreCtr(t)

\* the steps of ReadSeed
ReadSeedStep(t) ==
    \/ ReadSeedCall(t)
    \/ SeedLoadCounter(t)
    \/ SeedStoreCounter(t)

\* the steps of Generator.Read
GenReadStep(t) ==
    \/ NewCipher(t)
    \/ Encrypt(t)
    \/ IncLoad(t)
    \/ IncStore(t)
    \/ Install(t)

\* Entropy events against reseeds: the first thread adds two events to pool
\* 0, which fill it to MinPoolSize, and calls Read, which reseeds; the
\* second adds an event to the last pool and one to pool 0 and calls Read;
\* any further thread adds an event to the last pool.  The calls overlap
\* within one reading of the clock.
PoolScript ==
    [t \in Threads |->
        IF t = 1
        THEN <<AddOp(0, MaxEventSize, 101), AddOp(0, 12, 102), ReadOp(NilBuf)>>
        ELSE IF t = 2
        THEN <<AddOp(PoolSize - 1, 12, 120), AddOp(0, 12, 121), ReadOp(NilBuf)>>
        ELSE <<AddOp(PoolSize - 1, 12, 100 + 10 * t)>>]

ConcInit == InitWith(PoolScript)

ConcNext ==
    \E t \in Threads :
        AddStep(t) \/ ReadStep(t) \/ ReseedStep(t) \/ WriteStep(t)

ConcSpec == ConcInit /\ [][ConcNext]_vars

\* ---- the mutexes of mustReseed and reseed, one Lock or Unlock a step ----
\* loc[t].trail: the locks the current mustReseed or reseed has taken so far

\* mustReseed: rng.pools[0].Lock()
LkMustPoolLock(t) ==
    /\ pc[t] = "mustReseedPool"
    /\ lockFree(locks, 0)
    /\ locks' = lock(locks, 0, t)
    /\ loc' = [loc EXCEPT ![t].trail = Append(@, 0)]
    /\ Goto(t, "mustPoolUnlock")
    /\ UNCHANGED <<extVars, seqVars, encs, reseedLog, evlog, drains, todo>>

\* mustReseed: poolReseed computed, rng.pools[0].Unlock()
LkMustPoolUnlock(t) ==
    /\ pc[t] = "mustPoolUnlock"
    /\ loc' = [loc EXCEPT ![t].poolReseed = pools[0].written >= MinPoolSize]
    /\ locks' = unlock(locks, 0)
    /\ Goto(t, "mustTimeLock")
    /\ UNCHANGED <<extVars, seqVars, encs, reseedLog, evlog, drains, todo>>

\* mustReseed: rng.lastReseed.Lock()
LkMustTimeLock(t) ==
    /\ pc[t] = "mustTimeLock"
    /\ lockFree(locks, LastReseedLock)
    /\ locks' = lock(locks, LastReseedLock, t)
    /\ loc' = [loc EXCEPT ![t].trail = Append(@, LastReseedLock)]
    /\ Goto(t, "mustTimeUnlock")
    /\ UNCHANGED <<extVars, seqVars, encs, reseedLog, evlog, drains, todo>>

\* mustReseed: reseed computed, rng.lastReseed.Unlock(); the function is left
LkMustTimeUnlock(t) ==
    /\ pc[t] = "mustTimeUnlock"
    /\ loc' = [loc EXCEPT ![t].reseedAt = lastReseed + ReseedDelay,
                          ![t].trail = << >>]
    /\ locks' = unlock(locks, LastReseedLock)
    /\ Goto(t, "mustReseedNow")
    /\ UNCHANGED <<extVars, seqVars, encs, reseedLog, evlog, drains, todo>>

\* reseed: the head of the loop over the pools and rng.pools[i].Lock()
LkReseedLock(t) ==
    /\ pc[t] = "reseedPool"
    /\ LET i == loc[t].idx
       IN  IF i >= PoolSize
           THEN /\ Goto(t, "writeLoadKey")
                /\ UNCHANGED <<loc, locks>>
           ELSE IF poolSelected(i, counter)
                THEN /\ lockFree(locks, i)
                     /\ locks' = lock(locks, i, t)
                     /\ loc' = [loc EXCEPT ![t].trail = Append(@, i)]
                     /\ Goto(t, "reseedUnlock")
                ELSE /\ loc' = [loc EXCEPT ![t].idx = i + 1]
                     /\ UNCHANGED <<pc, locks>>
    /\ UNCHANGED <<extVars, seqVars, encs, reseedLog, evlog, drains, todo>>

\* reseed: the pool hashed and emptied, rng.pools[i].Unlock()
LkReseedUnlock(t) ==
    /\ pc[t] = "reseedUnlock"
    /\ LET i == loc[t].idx
       IN  /\ pools' = [pools EXCEPT ![i] = drainPool(pools[i]).pool]
           /\ drains' = [drains EXCEPT ![i] = Append(@, pools[i].hash)]
           /\ loc' = [loc EXCEPT ![t].sbuf = Append(@, drainPool(pools[i]).digest),
                                 ![t].idx = i + 1]
           /\ locks' = unlock(locks, i)
    /\ Goto(t, "reseedPool")
    /\ UNCHANGED <<extVars, initialised, counter, gen, lastReseed, now, nadds, nreads,
                   nseeds, last, encs, reseedLog, evlog, todo>>

\* reseed: rng.lastReseed.Lock()
LkStampLock(t) ==
    /\ pc[t] = "reseedStamp"
    /\ lockFree(locks, LastReseedLock)
    /\ locks' = lock(locks, LastReseedLock, t)
    /\ loc' = [loc EXCEPT ![t].trail = Append(@, LastReseedLock)]
    /\ Goto(t, "stampUnlock")
    /\ UNCHANGED <<extVars, seqVars, encs, reseedLog, evlog, drains, todo>>

\* reseed: lastReseed.Time = time.Now(), rng.lastReseed.Unlock()
LkStampUnlock(t) ==
    /\ pc[t] = "stampUnlock"
    /\ lastReseed' = now
    /\ locks' = unlock(locks, LastReseedLock)
    /\ Goto(t, "readCheck")
    /\ UNCHANGED <<extVars, initialised, pools, counter, gen, now, nadds, nreads,
                   nseeds, last, loc, encs, reseedLog, evlog, drains, todo>>

\* a step of thread t
LockStep(t) ==
    \/ AddStep(t)
    \/ ReadCall(t)
    \/ LkMustPoolLock(t)
    \/ LkMustPoolUnlock(t)
    \/ LkMustTimeLock(t)
    \/ LkMustTimeUnlock(t)
    \/ MustReseedNow(t)
    \/ ReseedLoadCounter(t)
    \/ ReseedStoreCounter(t)
    \/ LkReseedLock(t)
    \/ LkReseedUnlock(t)
    \/ WriteStep(t)
    \/ LkStampLock(t)
    \/ LkStampUnlock(t)
    \/ ReadCheck(t)

LockNext == \E t \in Threads : LockStep(t)

\* Locks against each other: the first thread fills pool 0 to MinPoolSize
\* with two events and calls Read, which reseeds; every other thread calls
\* Read, which reseeds when it finds the pool filled, and adds an event to
\* pool 0.  The calls overlap within one reading of the clock.
LockScript ==
    [t \in Threads |->
        IF t = 1
        THEN <<AddOp(0, MaxEventSize, 101), AddOp(0, 12, 102), ReadOp(NilBuf)>>
        ELSE <<ReadOp(NilBuf), AddOp(0, 12, 100 + 10 * t)>>]

LockInit == InitWith(LockScript)

LockSpec == LockInit /\ [][LockNext]_vars

\* every goroutine that can run is scheduled, and a Lock() on a mutex that
\* stays free returns
LockFairSpec == LockSpec /\ \A t \in Threads : WF_vars(LockStep(t))

\* Reads against each other: the first thread restores a seed and reads one
\* block, the others read one block.
RaceScript ==
    [t \in Threads |->
        IF t = 1
        THEN <<ReadSeedOp(SeedFileLength, 17), ReadOp(Buf(BlockSize))>>
        ELSE <<ReadOp(Buf(BlockSize))>>]

RaceInit == InitWith(RaceScript)

RaceNext ==
    \E t \in Threads :
        ReadSeedStep(t) \/ WriteStep(t) \/ ReadStep(t) \/ GenReadStep(t)

RaceSpec == RaceInit /\ [][RaceNext]_vars

(***************************************************************************)
(* Properties                                                              *)
(***************************************************************************)
CeilDiv(n, d) == (n + d - 1) \div d

\* b = a + 1 as uint32 values
U32Succ(a, b) ==
    \/ a[2] < Limb - 1 /\ b[1] = a[1] /\ b[2] = a[2] + 1
    \/ a[2] = Limb - 1 /\ b[2] = 0 /\ b[1] = (a[1] + 1) % Limb

\* b = a + k as counter values, for a small k and a below 2^24
CounterPlus(a, b, k) ==
    /\ \A j \in 4 .. CounterLen : a[j] = 0 /\ b[j] = 0
    /\ b[1] + 256 * b[2] + 65536 * b[3] = a[1] + 256 * a[2] + 65536 * a[3] + k

ValidEvent(i, e) == i \in PoolIndex /\ ~e.isNil /\ len(e) >= 1 /\ len(e) <= MaxEventSize

\* C1: at every reseed, with r the incremented reseed counter, pool i is
\* drained and digested iff r mod 2^i = 0, and every other pool keeps its
\* buffer.
C1_ReseedSchedule ==
    [][\A p \in Dests :
          (last'.op = "Read" /\ last'.reseeded /\ Read(p))
              => \A i \in PoolIndex :
                    /\ (i \in last'.drained) <=> U32DivisibleByPow2(counter', i)
                    /\ ~U32DivisibleByPow2(counter', i) => pools'[i] = pools[i]]_vars

\* C4: a Read on a never-seeded instance whose reseed trigger does not fire
\* returns (0, ErrNotSeeded) for every destination, nil included, writes
\* nothing and leaves the generator as it was.
C4_NotSeeded ==
    [][\A p \in Dests :
          (/\ U32IsZero(counter)
           /\ ~mustReseed(pools, lastReseed, now)
           /\ last'.op = "Read" /\ last'.p = p
           /\ Read(p))
              => /\ last'.n = 0
                 /\ last'.err = "ErrNotSeeded"
                 /\ last'.out = << >>
                 /\ gen' = gen
                 /\ counter' = counter]_vars

\* C4 witness: Read of a non-nil buffer and of a nil buffer both refused on a
\* fresh instance that already holds some entropy
C4_Witness ==
    /\ last.op = "Read" /\ last.err = "ErrNotSeeded" /\ last.n = 0
    /\ last.p = Buf(MaxRead)
    /\ pools[0].written > 0
    /\ gen = NewGenerator

\* C5: on a seeded instance, Read of n bytes, 1 <= n <= MaxRead, returns
\* (n, nil) and fills the n bytes with the first n bytes of ceil(n/16)
\* blocks generated one after the other from the generator's counter.
C5_ReadLength ==
    [][\A p \in Dests :
          (/\ ~p.isNil /\ p.len >= 1 /\ p.len <= MaxRead
           /\ last'.op = "Read" /\ last'.p = p
           /\ Read(p)
           /\ ~U32IsZero(counter'))
              => /\ last'.n = p.len
                 /\ last'.err = "nil"
                 /\ Len(last'.out) = 1
                 /\ last'.out[1].t = "enc"
                 /\ last'.out[1].n = p.len
                 /\ last'.out[1].blocks = CeilDiv(p.len, BlockSize)
                 /\ ~last'.reseeded
                        => /\ last'.out[1].k = gen.key
                           /\ last'.out[1].c = gen.ctr]_vars

C5_Witness ==
    /\ last.op = "Read" /\ last.err = "nil"
    /\ last.p = Buf(BlockSize + 1) /\ last.n = BlockSize + 1
    /\ last.out[1].blocks = 2

\* C7: AddRandomEvent with a pool index outside 0..31, a nil payload, an
\* empty payload or a payload longer than MaxEventSize returns
\* ErrInvalidEvent and changes nothing.
C7_InvalidEvent ==
    [][\A s \in Sources, ev \in Events :
          (/\ initialised
           /\ ~ValidEvent(ev[1], ev[2])
           /\ last'.op = "AddRandomEvent" /\ last'.i = ev[1] /\ last'.e = ev[2]
           /\ AddRandomEvent(s, ev[1], ev[2]))
              => /\ last'.err = "ErrInvalidEvent"
                 /\ UNCHANGED <<pools, counter, gen, lastReseed, initialised>>]_vars

\* C8: a valid AddRandomEvent(s, i, e) appends s, len(e), e[0], ... to pool
\* i's buffer, adds len(e) + 2 to its written, and leaves every other pool,
\* the reseed counter, last_reseed and the generator unchanged.
C8_AppendFrame ==
    [][\A s \in Sources, ev \in Events :
          (/\ initialised
           /\ ValidEvent(ev[1], ev[2])
           /\ AddRandomEvent(s, ev[1], ev[2]))
              => LET i == ev[1]
                     e == ev[2].data
                     h == pools[i].hash
                     h1 == pools'[i].hash
                 IN  /\ last'.err = "nil"
                     /\ Len(h1) = Len(h) + Len(e) + 2
                     /\ SubSeq(h1, 1, Len(h)) = h
                     /\ h1[Len(h) + 1] = s
                     /\ h1[Len(h) + 2] = Len(e)
                     /\ \A j \in 1 .. Len(e) : h1[Len(h) + 2 + j] = e[j]
                     /\ pools'[i].written = pools[i].written + Len(e) + 2
                     /\ \A j \in PoolIndex \ {i} : pools'[j] = pools[j]
                     /\ UNCHANGED <<counter, lastReseed, gen>>]_vars

\* C8 witness: a second event appended behind a first one in pool 31
C8_Witness ==
    /\ last.op = "AddRandomEvent" /\ last.err = "nil" /\ last.i = PoolSize - 1
    /\ pools[PoolSize - 1].written = (MaxEventSize + 2) + (12 + 2)
    /\ Len(pools[PoolSize - 1].hash) = (MaxEventSize + 2) + (12 + 2)
    /\ pools[PoolSize - 1].hash[MaxEventSize + 4] = 12

\* C10: ReadSeed(p) with len(p) = 64 writes p to the generator once and adds
\* one to the reseed counter, after which a Read of a non-empty buffer
\* succeeds with no entropy event; with any other length it returns
\* ErrInvalidSeed and leaves the generator and the reseed counter alone.
C10_ReadSeed ==
    [][/\ \A p \in Seeds :
            (last'.op = "ReadSeed" /\ last'.e = p /\ ReadSeed(p))
                => IF len(p) = SeedFileLength
                   THEN /\ last'.err = "nil"
                        /\ gen'.key = HashKey(gen.key, <<RawSeg(p.data)>>)
                        /\ CounterPlus(gen.ctr, gen'.ctr, 1)
                        /\ U32Succ(counter, counter')
                   ELSE /\ last'.err = "ErrInvalidSeed"
                        /\ gen' = gen
                        /\ counter' = counter
       /\ \A p \in Dests :
            (/\ nadds = 0 /\ nseeds >= 1
             /\ ~p.isNil /\ p.len >= 1
             /\ last'.op = "Read" /\ last'.p = p
             /\ Read(p))
                => last'.err = "nil" /\ last'.n = p.len]_vars

\* C10 witness: a Read served right after a restore, with every pool empty
C10_Witness ==
    /\ last.op = "Read" /\ last.err = "nil" /\ last.n = BlockSize + 1
    /\ nseeds = 1 /\ nadds = 0
    /\ \A i \in PoolIndex : pools[i] = EmptyPool
    /\ counter = <<0, 1>>

\* the bytes of the buffers bs, one after the other
RECURSIVE Flatten(_)
Flatten(bs) == IF bs = << >> THEN << >> ELSE Head(bs) \o Flatten(Tail(bs))

\* the bytes an AddRandomEvent call has appended so far: the whole frame once
\* it has returned, and the part written when it is between two appends
Appended(en) ==
    LET f == Frame(en.s, en.e)
        t == en.t
    IN  IF loc[t].call # en.call THEN f
        ELSE IF pc[t] = "addSource" THEN << >>
        ELSE IF pc[t] = "addLength" THEN SubSeq(f, 1, 1)
        ELSE IF pc[t] = "addPayload" THEN SubSeq(f, 1, 2)
        ELSE f

\* the frames of the events accepted for pool i, in the order of their calls
RECURSIVE FramesOf(_)
FramesOf(log) ==
    IF log = << >> THEN << >> ELSE <<Appended(Head(log))>> \o FramesOf(Tail(log))

\* what pool i has handed to reseeds, followed by what it still holds
Stream(i) == Flatten(drains[i]) \o pools[i].hash

\* the lengths at which a frame of pool i ends
FrameEnds(i) ==
    {Len(Flatten(SubSeq(FramesOf(evlog[i]), 1, k))) : k \in 0 .. Len(evlog[i])}

\* C9: under every interleaving of AddRandomEvent calls with each other and
\* with running reseeds, the buffers a pool hands to successive reseeds,
\* followed by what it still holds, are the frames of the events accepted for
\* it, each once, whole, and not mixed with another frame; no drain cuts a
\* frame; and the events of one caller to one pool are in the order of that
\* caller's calls.
C9_FramesOnce ==
    \A i \in {0, PoolSize - 1} :
        /\ Stream(i) = Flatten(FramesOf(evlog[i]))
        /\ \A k \in 1 .. Len(drains[i]) :
              Len(Flatten(SubSeq(drains[i], 1, k))) \in FrameEnds(i)
        /\ \A a, b \in 1 .. Len(evlog[i]) :
              (a < b /\ evlog[i][a].t = evlog[i][b].t)
                  => evlog[i][a].call < evlog[i][b].call

\* C9 witness: while the first thread's reseed is still walking the pools,
\* having drained the two frames of pool 0, the second thread has added its
\* event to pool 0, which holds exactly that frame for the next reseed
C9_Witness ==
    /\ pc[1] = "reseedPool"
    /\ drains[0] = <<Frame(1, Bytes(MaxEventSize, 101)) \o Frame(1, Bytes(12, 102))>>
    /\ pools[0].hash = Frame(2, Bytes(12, 121))
    /\ pc[2] = "idle"

\* C3: no two reseeds triggered by Read happen less than ReseedDelay apart,
\* whether the Reads follow each other or overlap.
C3_OneReseedPerDelay ==
    \A a, b \in 1 .. Len(reseedLog) :
        a < b => reseedLog[b].at - reseedLog[a].at >= ReseedDelay

\* C2: no block of one Read call is the encryption of the (key, counter)
\* pair of a data block or a new-key block of another Read call.
C2_NoAlias ==
    \A a, b \in encs :
        (a.call # b.call /\ a.role = "data")
            => ~(a.key = b.key /\ a.ctr = b.ctr)

\* C6: every Read of a non-empty destination installs as the key the two
\* blocks generated after its data blocks under the key it read, and no key
\* produces the data blocks of two different Read calls.
C6_KeyNotReused ==
    \A a, b \in encs :
        (a.call # b.call /\ a.role = "data" /\ b.role = "data") => a.key # b.key

\* C11: after every completed operation, if the generator is seeded (its
\* counter is not zero) then the reseed counter is at least 1.
C11_SeededHasReseedCount ==
    gen.ctr # ZeroCounter => ~U32IsZero(counter)

\* C13 as stated: Seed() on an initialised instance returns SeedFileLength
\* bytes drawn by one Read when the reseed counter is not 0, and
\* ErrNotSeeded and no bytes when the reseed counter is 0.
C13_SeedAsStated ==
    [][(initialised /\ last'.op = "Seed" /\ Seed)
          => IF U32IsZero(counter)
             THEN last'.err = "ErrNotSeeded" /\ last'.out = << >>
             ELSE last'.err = "nil" /\ last'.n = SeedFileLength]_vars

\* C13: Seed() on an initialised instance whose reseed counter is not 0
\* returns SeedFileLength bytes, the output of one Read, which leaves as the
\* key the two blocks after the four of the seed; when the reseed counter is
\* 0 and the reseed trigger does not fire it returns ErrNotSeeded, no bytes,
\* and leaves the generator alone.
C13_Seed ==
    [][(initialised /\ last'.op = "Seed" /\ Seed)
          => IF U32IsZero(counter)
             THEN ~mustReseed(pools, lastReseed, now)
                     => /\ last'.err = "ErrNotSeeded"
                        /\ last'.out = << >>
                        /\ gen' = gen
             ELSE /\ last'.err = "nil"
                  /\ last'.n = SeedFileLength
                  /\ Len(last'.out) = 1
                  /\ last'.out[1].t = "enc"
                  /\ last'.out[1].n = SeedFileLength
                  /\ last'.out[1].blocks = CeilDiv(SeedFileLength, BlockSize)
                  /\ gen'.key = BlocksKey(last'.out[1].k,
                                          incCounterTimes(last'.out[1].c, 4),
                                          incCounterTimes(last'.out[1].c, 5))
                  /\ gen'.ctr = incCounterTimes(last'.out[1].c, 6)
                  /\ gen'.key # gen.key
                  /\ ~last'.reseeded
                         => last'.out[1].k = gen.key /\ last'.out[1].c = gen.ctr]_vars

\* C13 witness: a seed of 64 bytes returned by an instance that was restored
\* from a seed, with no reseed on the way
C13_Witness ==
    /\ last.op = "Seed" /\ last.err = "nil" /\ last.n = SeedFileLength
    /\ ~last.reseeded
    /\ last.out[1].k.kind = "sha256"
    /\ gen.key.kind = "aes"

\* C15: a successful WriteSeed leaves in the file exactly the 64 bytes its
\* Seed() produced, whatever the file held; FromSeed on a file of 64 bytes
\* returns the instance New() followed by ReadSeed of those bytes gives
\* (reseed counter 1, generator counter 1); on a missing file or another
\* length it returns an error and no instance.
C15_SeedFileRoundTrip ==
    [][/\ \A io \in IoOutcomes :
            (last'.op = "WriteSeed" /\ last'.err = "nil" /\ WriteSeed(io))
                => /\ Len(last'.out) = 1
                   /\ file' = FileOf(SeedFileLength, last'.out[1])
       /\ (last'.op = "FromSeed" /\ FromSeed)
            => IF file.exists /\ file.len = SeedFileLength
               THEN /\ last'.err = "nil"
                    /\ initialised'
                    /\ pools' = [i \in PoolIndex |-> EmptyPool]
                    /\ lastReseed' = 0
                    /\ counter' = <<0, 1>>
                    /\ gen'.key = HashKey(ZeroKey, <<file.seg>>)
                    /\ CounterPlus(ZeroCounter, gen'.ctr, 1)
                    /\ file.seg.t = "raw"
                          => LET r == readSeed(NewGenerator, U32Zero,
                                               Slice(file.seg.v))
                             IN  gen' = r.gen /\ counter' = r.counter
               ELSE /\ last'.err # "nil"
                    /\ file.exists => last'.err = "ErrInvalidSeed"
                    /\ UNCHANGED <<initialised, pools, counter, gen, lastReseed>>]_vars

\* C15 witness: an instance restored by FromSeed from a file that WriteSeed
\* wrote over the seed found at start
C15_Witness ==
    /\ last.op = "FromSeed" /\ last.err = "nil"
    /\ file.seg.t = "enc" /\ file.len = SeedFileLength
    /\ gen.key = HashKey(ZeroKey, <<file.seg>>)
    /\ counter = <<0, 1>>

\* C16: a successful UpdateSeed on a seeded instance and a file of 64 bytes
\* writes the bytes of the file into the generator and then replaces the
\* file with 64 bytes generated after that write, which are not the bytes
\* read; on a missing file or a file of another length it returns an error
\* (ErrInvalidSeed for the length) and leaves the file, the generator and
\* the reseed counter alone.
C16_UpdateSeed ==
    [][\A io \in IoOutcomes :
          (initialised /\ last'.op = "UpdateSeed" /\ UpdateSeed(io))
              => IF file.exists /\ file.len = SeedFileLength
                 THEN (~U32IsZero(counter) /\ last'.err = "nil")
                         => /\ file' = instSeed([Inst EXCEPT !.gen =
                                                     GenWrite(gen, <<file.seg>>)],
                                                now).seed
                            /\ file'.len = SeedFileLength
                            /\ file' # file
                            /\ file'.seg.k # gen.key
                 ELSE /\ last'.err # "nil"
                      /\ file.exists => last'.err = "ErrInvalidSeed"
                      /\ UNCHANGED <<file, gen, counter>>]_vars

\* C16 witness: the seed found at start replaced by bytes generated under
\* the key that the old seed was folded into
C16_Witness ==
    /\ last.op = "UpdateSeed" /\ last.err = "nil"
    /\ file.exists /\ file.len = SeedFileLength /\ file.seg.t = "enc"
    /\ file.seg.k.kind = "sha256"
    /\ file.seg.k.s = <<RawSeg(Bytes(SeedFileLength, 33))>>

C12_TunaRestoreUsable ==
    [][/\ \A p \in Seeds :
            (last'.op = "ReadSeed" /\ last'.err = "nil" /\ TunaReadSeed(p))
                => ~U32IsZero(counter')
       /\ (last'.op = "FromSeed" /\ last'.err = "nil" /\ TunaFromSeed)
            => ~U32IsZero(counter')
       /\ \A p \in Dests :
            (/\ last.op \in {"ReadSeed", "FromSeed"} /\ last.err = "nil"
             /\ nadds = 0
             /\ ~p.isNil /\ p.len >= 1
             /\ last'.op = "Read" /\ last'.p = p
             /\ TunaRead(p))
                => last'.err = "nil" /\ last'.n = p.len]_vars

RECURSIVE Payloads(_, _)
Payloads(calls, n) ==
    IF n = 0 THEN << >> ELSE Payloads(calls, n - 1) \o calls[n].e

\* C18: a Write(p) of L > 0 bytes that has returned issued its
\* AddRandomEvent calls with payloads of 1 to 32 bytes that are, in order,
\* the bytes of p, the j-th to pool (i0 + j) mod 32, i0 the index the
\* writer had before the call and the index carrying over to the next call;
\* with no chunk rejected there are ceil(L/32) calls and it returns (L, nil),
\* which is what happens while the instance is initialised; a rejected chunk
\* is the last call and Write returns the bytes of the earlier chunks and
\* the error.
C18_WriterChunks ==
    (sw.pc = "idle" /\ sw.writes > 0 /\ len(sw.p) > 0) =>
        LET m == Len(sw.calls)
            L == len(sw.p)
        IN  /\ \A j \in 1 .. m :
                    /\ sw.calls[j].i = (sw.i0 + (j - 1)) % PoolSize
                    /\ Len(sw.calls[j].e) \in 1 .. MaxEventSize
            /\ sw.i = (sw.i0 + m) % PoolSize
            /\ initialised => sw.err = "nil"
            /\ IF sw.err = "nil"
               THEN /\ m = CeilDiv(L, MaxEventSize)
                    /\ \A j \in 1 .. m : sw.calls[j].err = "nil"
                    /\ Payloads(sw.calls, m) = sw.p.data
                    /\ sw.n = L
               ELSE /\ m >= 1
                    /\ sw.calls[m].err = sw.err
                    /\ \A j \in 1 .. m - 1 : sw.calls[j].err = "nil"
                    /\ Payloads(sw.calls, m) = SubSeq(sw.p.data, 1, Len(Payloads(sw.calls, m)))
                    /\ sw.n = Len(Payloads(sw.calls, m - 1))

C18_Witness ==
    /\ sw.pc = "idle" /\ sw.writes = 2
    /\ sw.i0 = 1
    /\ len(sw.p) = MaxEventSize + 8
    /\ sw.err = "nil" /\ sw.n = len(sw.p)
    /\ Len(sw.calls) = 2
    /\ pools[0].written = (MaxEventSize + 2) + (6 + 2)
    /\ pools[2].written = (MaxEventSize + 2) + (8 + 2)

\* C19: after Stop on a started SourceChannel the worker applies every event
\* queued in In, in order, the k-th to pool k mod 32, and exits, and Out is
\* closed only after that: while Out is closed the worker has exited and
\* every event sent has been applied; Stop never closes a channel twice.
C19_StopDrains ==
    /\ cs.outClosed =>
          /\ cs.wpc = "exited"
          /\ Len(cs.applied) = Len(cs.sent)
          /\ \A k \in 1 .. Len(cs.applied) :
                /\ cs.applied[k].e = cs.sent[k]
                /\ cs.applied[k].i = (k - 1) % PoolSize
    /\ cs.closes <= 2

\* what the task has done once it has exited, the final WriteSeed failing or not
ShutdownLog(err) ==
    IF err # "nil" THEN <<"write", "send", "close", "mark">>
    ELSE <<"write", "close", "mark">>

\* the task has exited: what it did, and in which order
ExitedInOrder ==
    /\ au.log = ShutdownLog(au.err)
    /\ au.finals = 1
    /\ au.errCloses = 1
    /\ ~initialised
    /\ (au.err = "nil" \/ (au.got # << >> /\ au.got[Len(au.got)] = au.err))

\* the task on its way out: it is doing the steps in order, each at most
\* once, and only because the shutdown channel is closed
LeavingInOrder ==
    /\ au.finals <= 1
    /\ au.errCloses <= 1
    /\ (Len(au.log) = 0 \/ au.log = SubSeq(ShutdownLog(au.err), 1, Len(au.log)))
    /\ ~au.shClosedByTask
    /\ (au.pc \in {"off", "select", "tsend"} \/ au.shClosed)

C21_DownIsInert ==
    [][~initialised
          => /\ last'.err = "ErrNotInitialised"
             /\ UNCHANGED <<pools, counter, gen>>]_vars

\* C22: while the shutdown channel is open the task calls WriteSeed once per
\* elapsed interval of ten minutes, whatever values it is sent in between:
\* when it waits in its select and ten minutes or more have passed since it
\* began to wait for the next WriteSeed, its timer is due.
C22_OncePerInterval ==
    (/\ au.pc = "select" /\ ~au.shClosed
     /\ now >= au.since + UpdateInterval)
        => now >= au.armed + UpdateInterval

\* C23: in the capped variant Read of a buffer longer than MaxRead returns
\* (0, ErrReadTooLarge) with the key, the counter and the buffer untouched,
\* and Read of a buffer of at most MaxRead bytes fills all of it.
C23_ReadCap ==
    (gt.op = "Read" /\ ~gt.p.isNil) =>
        IF gt.p.len > MaxRead
        THEN /\ gt.n = 0 /\ gt.err = "ErrReadTooLarge"
             /\ gt.out = << >>
             /\ gt.g = gt.prev
        ELSE /\ gt.n = gt.p.len /\ gt.err = "nil"
             /\ Len(gt.out) = 1
             /\ gt.out[1].n = gt.p.len
             /\ gt.out[1].blocks = CeilDiv(gt.p.len, BlockSize)
             /\ gt.out[1].k = gt.prev.key /\ gt.out[1].c = gt.prev.ctr

C23_Witness ==
    /\ gt.op = "Read" /\ gt.p.len = MaxRead /\ gt.n = MaxRead
    /\ gt.prev.key.kind = "aes"
    /\ gt.ops = 3

\* C24: in every state each pool's written counter is the number of bytes
\* added to the pool since it was last drained, the length of its pending
\* buffer.
C24_WrittenIsPending ==
    \A i \in PoolIndex : pools[i].written = Len(pools[i].hash)

\* C25 as stated: Read reseeds before producing output iff, at the check,
\* pools[0].written >= MinPoolSize and now >= lastReseed + ReseedDelay.
C25_TriggerAsStated ==
    [][\A p \in Dests :
          (last'.op = "Read" /\ last'.p = p /\ Read(p))
              => (counter' # counter
                    <=> (/\ pools[0].written >= MinPoolSize
                         /\ now >= lastReseed + ReseedDelay))]_vars

\* C25: Read reseeds before producing output iff, at the check,
\* pools[0].written >= MinPoolSize and now is later than lastReseed +
\* ReseedDelay, whatever the other pools hold; a reseed writes the generator
\* before any output is drawn and leaves lastReseed at the current time, and
\* a Read that does not reseed leaves lastReseed, the reseed counter and the
\* pools alone.
C25_Trigger ==
    [][\A p \in Dests :
          (last'.op = "Read" /\ last'.p = p /\ Read(p))
              => /\ last'.reseeded
                    <=> (/\ pools[0].written >= MinPoolSize
                         /\ now > lastReseed + ReseedDelay)
                 /\ last'.reseeded <=> counter' # counter
                 /\ last'.reseeded
                       => /\ lastReseed' = now
                          /\ U32Succ(counter, counter')
                          /\ last'.out # << >>
                                => /\ last'.out[1].k.kind = "sha256"
                                   /\ last'.out[1].k.prev = gen.key
                                   /\ last'.out[1].c = incCounter(gen.ctr)
                 /\ ~last'.reseeded
                       => UNCHANGED <<lastReseed, counter, pools>>]_vars

\* C25 witness: a Read exactly ReseedDelay after a reseed, pool 0 still at
\* MinPoolSize or more, that did not reseed
C25_Witness ==
    /\ last.op = "Read" /\ ~last.reseeded
    /\ ~U32IsZero(counter)
    /\ pools[0].written >= MinPoolSize
    /\ lastReseed >= StartTime
    /\ now = lastReseed + ReseedDelay

\* C26: under any interleaving of concurrent Reads the reseed counter equals
\* the number of reseeds executed so far: once every call has returned, no
\* increment has been lost.
C26_NoLostIncrement ==
    (\A t \in Threads : pc[t] = "idle")
        => counter = <<Len(reseedLog) \div Limb, Len(reseedLog) % Limb>>

\* C27: over any sequence of generator operations the counter, as a 128-bit
\* little-endian number, never decreases: Reseed and Write add 1,
\* generateBlocks(k) adds k, a Read of n > 0 bytes in one chunk adds
\* ceil(n/16) + 2, and a Read of nil or of no bytes leaves it alone.
C27_CounterAdvance ==
    /\ ~CounterLess(gt.g.ctr, gt.prev.ctr)
    /\ (gt.op = "none") => (gt.g.ctr = ZeroCounter)
    /\ (gt.op \in {"Write", "Reseed"}) => CounterPlus(gt.prev.ctr, gt.g.ctr, 1)
    /\ (gt.op = "generateBlocks") => CounterPlus(gt.prev.ctr, gt.g.ctr, gt.k)
    /\ (gt.op = "Read" /\ (gt.p.isNil \/ gt.p.len = 0)) => (gt.g.ctr = gt.prev.ctr)
    /\ (gt.op = "Read" /\ ~gt.p.isNil /\ gt.p.len > 0 /\ gt.p.len <= MaxRead)
          => CounterPlus(gt.prev.ctr, gt.g.ctr, CeilDiv(gt.p.len, BlockSize) + 2)

\* C27 witness: a Write on a counter whose byte 0 is 255 after
\* generateBlocks(255), the carry taken into byte 1
C27_Witness ==
    /\ gt.op = "Write"
    /\ gt.prev.ctr[1] = 255
    /\ gt.g.ctr[1] = 0
    /\ gt.g.ctr[2] = gt.prev.ctr[2] + 1

\* C28: every block encrypted by generateBlocks on behalf of Generator.Read
\* has a counter other than zero as its input.
C28_CounterNotZero ==
    (gt.op = "Read")
        => \A j \in 1 .. Len(gt.out) :
              (gt.out[j].blocks > 0) => (gt.out[j].c # ZeroCounter)

\* C29: a Read of n bytes by the chunked generator, k = ceil(n/16) blocks, is
\* served in ceil(k/65536) chunks of at most 65536 blocks; each chunk is
\* encrypted under the key the chunk before it installed and no key serves
\* two chunks; every chunk but the last fills 65536 * 16 bytes and the last
\* fills the rest, so the chunks cover the n bytes once and in order; the
\* counter advances by k + 2 * ceil(k/65536) and the call returns (n, nil).
C29_ChunkedRead ==
    (gt.op = "Read" /\ ~gt.p.isNil)
        => LET k == CeilDiv(gt.p.len, BlockSize)
               nch == CeilDiv(k, maxBlocks)
               full == maxBlocks * BlockSize
           IN  /\ gt.n = gt.p.len
               /\ gt.err = "nil"
               /\ Len(gt.out) = nch
               /\ CounterPlus(gt.prev.ctr, gt.g.ctr, k + 2 * nch)
               /\ \A j \in 1 .. nch :
                     /\ gt.out[j].blocks \in 1 .. maxBlocks
                     /\ gt.out[j].c =
                            incCounterTimes(gt.prev.ctr, (j - 1) * (maxBlocks + 2))
                     /\ gt.out[j].k =
                            (IF j = 1 THEN gt.prev.key
                             ELSE BlocksKey(gt.out[j - 1].k,
                                            incCounterTimes(gt.out[j - 1].c, maxBlocks),
                                            incCounterTimes(gt.out[j - 1].c, maxBlocks + 1)))
                     /\ gt.out[j].n =
                            (IF j < nch THEN full ELSE gt.p.len - (nch - 1) * full)
                     /\ gt.out[j].blocks = CeilDiv(gt.out[j].n, BlockSize)
                     /\ \A i \in 1 .. nch : (i # j) => (gt.out[i].k # gt.out[j].k)
                     /\ gt.g.key # gt.out[j].k
               /\ (nch > 0)
                     => gt.g.key =
                           BlocksKey(gt.out[nch].k,
                                     incCounterTimes(gt.out[nch].c, gt.out[nch].blocks),
                                     incCounterTimes(gt.out[nch].c, gt.out[nch].blocks + 1))
               /\ (nch = 0) => (gt.g = gt.prev)

\* C29 witness: a Read of two full chunks and 17 bytes, served in three
\* chunks, the last of two blocks
C29_Witness ==
    /\ gt.op = "Read"
    /\ gt.p.len = 2 * MaxRead + BlockSize + 1
    /\ gt.n = gt.p.len
    /\ Len(gt.out) = 3
    /\ gt.out[3].blocks = 2
    /\ gt.out[3].n = BlockSize + 1
    /\ gt.prev.ctr # ZeroCounter

\* the locks thread t holds
HeldBy(t) == {i \in DOMAIN locks : locks[i] = t}

\* every call made and returned
AllReturned == \A t \in Threads : pc[t] = "idle" /\ todo[t] = << >>

\* a thread holds at most one lock; the locks one mustReseed or one reseed
\* takes are in ascending order, the pools by index and lastReseed after them
LockOrder ==
    \A t \in Threads :
        /\ Cardinality(HeldBy(t)) <= 1
        /\ (LastReseedLock \in HeldBy(t)) => (HeldBy(t) \cap PoolIndex = {})
        /\ \A a, b \in 1 .. Len(loc[t].trail) :
              (a < b) => (loc[t].trail[a] < loc[t].trail[b])
        /\ (pc[t] = "idle") => (HeldBy(t) = {})

\* while a call is pending some thread can take a step
NoDeadlock == AllReturned \/ ENABLED LockNext

\* C30: in every interleaving of concurrent AddRandomEvent and Read calls a
\* thread holds at most one lock at a time, a reseed takes the pool locks in
\* ascending order of index, the lastReseed lock is never taken by a thread
\* that holds a pool lock, no state with a pending call is stuck, and every
\* call returns, after which every lock is free.
C30_LockDiscipline ==
    /\ [](LockOrder /\ NoDeadlock)
    /\ <>[](AllReturned /\ \A i \in DOMAIN locks : locks[i] = 0)

\* C30 witness: the first thread in reseed holds the lock of the last pool,
\* having taken every pool lock before it in order, while the second waits
\* in its own reseed for that lock
C30_Witness ==
    /\ pc[1] = "reseedUnlock"
    /\ locks[PoolSize - 1] = 1
    /\ loc[1].trail = [i \in 1 .. PoolSize |-> i - 1]
    /\ pc[2] = "reseedPool"
    /\ loc[2].idx = PoolSize - 1
    /\ ~ENABLED LockStep(2)

\* C31: from every generator state (K, C) and for every byte string s,
\* Write(s) and Reseed(string(s)) leave the same state, key H(K || s) and
\* counter C + 1, a function of K, C and s alone; Write returns (len(s), nil).
C31_WriteIsReseed ==
    (gt.op \in {"Write", "Reseed"})
        => /\ gt.g.key =
                 HashKey(gt.prev.key,
                         IF gt.s.data = << >> THEN << >> ELSE <<RawSeg(gt.s.data)>>)
           /\ gt.g.ctr = incCounter(gt.prev.ctr)
           /\ CounterPlus(gt.prev.ctr, gt.g.ctr, 1)
           /\ GenWrite(gt.prev, hashWrite(gt.s)) = GenReseed(gt.prev, goString(gt.s))
           /\ (gt.op = "Write") => (gt.n = Len(gt.s.data) /\ gt.err = "nil")

\* C31 witness: Reseed of the string of three bytes, two of them no ASCII
\* characters, on a generator that Write has keyed with the same bytes
C31_Witness ==
    /\ gt.op = "Reseed"
    /\ gt.s = Slice(<<0, 128, 255>>)
    /\ gt.prev.key = HashKey(ZeroKey, <<RawSeg(<<0, 128, 255>>)>>)
    /\ gt.g.key = HashKey(gt.prev.key, <<RawSeg(<<0, 128, 255>>)>>)
    /\ gt.ops = 2

\* C32: under every interleaving of Stop with the worker goroutine, the
\* worker never sends on Out after Stop has closed it.
C32_NoSendOnClosed == cs.wpc # "panic"

\* C33: once the reseed counter is 1 or more, as it is when a Read has
\* succeeded, no reseed and no ReadSeed leaves it 0 and no Read returns
\* ErrNotSeeded, however many reseeds and ReadSeed calls went before.
C33_StaysSeeded ==
    [][~U32IsZero(counter)
          => /\ ~U32IsZero(counter')
             /\ last'.err # "ErrNotSeeded"]_vars

====
